---- MODULE Spec2Model ----
(***************************************************************************)
(* Model of the document ingestion pipeline of                             *)
(* KBaseFaQs/universal_document_processor.py: the type detector, the       *)
(* format processors, the text chunker and the UniversalDocumentProcessor  *)
(* orchestrator (process_file / process_directory).                        *)
(*                                                                         *)
(* Strings are run-length encoded: a string is a sequence of runs          *)
(* [c |-> character, n |-> repetitions], adjacent runs having different    *)
(* characters.  The encoding is exact (every operation below is the string *)
(* operation it names), and it lets the model hold the 5,000 and 10,000    *)
(* character strings the thresholds of the code are about.                 *)
(***************************************************************************)
EXTENDS Integers, Sequences, FiniteSets, TLC

(* ---------------------------------------------------------------------- *)
(* Bounds of the chunker inputs                                            *)
(* ---------------------------------------------------------------------- *)
MaxRuns == 4
MaxRunLen == 4
MaxChunkSize == 5

(* ---------------------------------------------------------------------- *)
(* Strings                                                                 *)
(* ---------------------------------------------------------------------- *)
NL == "\\n"

EmptyStr == <<>>

SRep(c, n) == IF n = 0 THEN <<>> ELSE <<[c |-> c, n |-> n]>>

(* sums and concatenations are folded by halves, which keeps the depth of  *)
(* evaluation logarithmic in the length                                    *)
RECURSIVE SumRange(_, _, _)
SumRange(f, lo, hi) ==
    IF lo > hi THEN 0
    ELSE IF lo = hi THEN f[lo]
    ELSE SumRange(f, lo, (lo + hi) \div 2)
         + SumRange(f, ((lo + hi) \div 2) + 1, hi)

SLen(s) == SumRange([i \in 1..Len(s) |-> s[i].n], 1, Len(s))

(* s + t *)
SCat(s, t) ==
    IF s = <<>> THEN t
    ELSE IF t = <<>> THEN s
    ELSE IF s[Len(s)].c = t[1].c
         THEN SubSeq(s, 1, Len(s) - 1)
              \o <<[c |-> t[1].c, n |-> s[Len(s)].n + t[1].n]>>
              \o Tail(t)
         ELSE s \o t

RECURSIVE CatRange(_, _, _)
CatRange(ss, lo, hi) ==
    IF lo > hi THEN <<>>
    ELSE IF lo = hi THEN ss[lo]
    ELSE SCat(CatRange(ss, lo, (lo + hi) \div 2),
              CatRange(ss, ((lo + hi) \div 2) + 1, hi))

(* "".join(ss) *)
SJoinAll(ss) == CatRange(ss, 1, Len(ss))

(* sep.join(parts) *)
SJoin(sep, parts) ==
    SJoinAll([i \in 1..(2 * Len(parts) - 1) |->
                 IF i % 2 = 1 THEN parts[(i + 1) \div 2] ELSE sep])

(* the concatenation of a sequence of sequences *)
RECURSIVE ConcatRange(_, _, _)
ConcatRange(qs, lo, hi) ==
    IF lo > hi THEN <<>>
    ELSE IF lo = hi THEN qs[lo]
    ELSE ConcatRange(qs, lo, (lo + hi) \div 2)
         \o ConcatRange(qs, ((lo + hi) \div 2) + 1, hi)

ConcatAll(qs) == ConcatRange(qs, 1, Len(qs))

(* the k-th smallest element of a set of numbers *)
KthOf(S, k) == CHOOSE i \in S : Cardinality({j \in S : j <= i}) = k

SPrefixWhole(s, k) == s

(* s[:k] *)
SPrefix(s, k) ==
    IF k <= 0 THEN <<>>
    ELSE IF SLen(s) <= k THEN s
    ELSE LET Before(i) == SLen(SubSeq(s, 1, i - 1))
             m == CHOOSE i \in 1..Len(s) :
                     Before(i) < k /\ Before(i) + s[i].n >= k
         IN  SubSeq(s, 1, m - 1) \o <<[c |-> s[m].c, n |-> k - Before(m)]>>

(* content.split('\n\n'): the separators are taken from the left, so a run *)
(* of k newlines holds k \div 2 separators and leaves k % 2 newlines to the *)
(* paragraph that follows                                                  *)
SplitParagraphs(content) ==
    LET seps == {i \in 1..Len(content) :
                    content[i].c = NL /\ content[i].n >= 2}
        m == Cardinality(seps)
        SepAt(k) == IF k > m THEN Len(content) + 1 ELSE KthOf(seps, k)
        Piece(k) ==
            (IF k = 1 THEN <<>> ELSE SRep(NL, content[SepAt(k - 1)].n % 2))
            \o SubSeq(content, IF k = 1 THEN 1 ELSE SepAt(k - 1) + 1,
                      SepAt(k) - 1)
        Segment(k) ==
            <<Piece(k)>>
            \o [j \in 1..((content[SepAt(k)].n \div 2) - 1) |-> <<>>]
    IN  ConcatAll([k \in 1..m |-> Segment(k)]) \o <<Piece(m + 1)>>

ParaSep == SRep(NL, 2)

(* ---------------------------------------------------------------------- *)
(* TextProcessor._create_text_chunks                                       *)
(* ---------------------------------------------------------------------- *)
DocumentChunk(chunk_id, document_id, content, content_type, chunk_index, total_chunks, metadata) ==
    [chunk_id |-> chunk_id, document_id |-> document_id, content |-> content,
     content_type |-> content_type, chunk_index |-> chunk_index,
     total_chunks |-> total_chunks, metadata |-> metadata,
     embedding_text |-> content]

TextChunk(document_id, current_chunk, chunk_index, total_chunks) ==
    DocumentChunk(<<"chunk_", chunk_index>>, document_id, current_chunk, "text",
                  chunk_index, total_chunks,
                  [size |-> SLen(current_chunk)])

(* a packing test that looks at the current chunk only *)
FitsInChunkCurrentOnly(current_chunk, para, chunk_size) ==
    SLen(current_chunk) < chunk_size

FitsInChunk(current_chunk, para, chunk_size) ==
    SLen(current_chunk) + SLen(para) < chunk_size

NextChunkIndexStuck(chunk_index) == chunk_index

NextChunkIndex(chunk_index) == chunk_index + 1

(* the for loop over the paragraphs; st = [current_chunk, chunk_index, chunks] *)
RECURSIVE ChunkLoop(_, _, _, _, _)
ChunkLoop(paragraphs, i, st, chunk_size, document_id) ==
    IF i > Len(paragraphs) THEN st
    ELSE LET para == paragraphs[i] IN
         IF FitsInChunk(st.current_chunk, para, chunk_size)
         THEN ChunkLoop(paragraphs, i + 1,
                  [st EXCEPT !.current_chunk = SCat(SCat(@, para), ParaSep)],
                  chunk_size, document_id)
         ELSE IF st.current_chunk # EmptyStr
         THEN ChunkLoop(paragraphs, i + 1,
                  [current_chunk |-> SCat(para, ParaSep),
                   chunk_index |-> NextChunkIndex(st.chunk_index),
                   chunks |-> Append(st.chunks,
                                 TextChunk(document_id, st.current_chunk,
                                           st.chunk_index, 0))],
                  chunk_size, document_id)
         ELSE ChunkLoop(paragraphs, i + 1,
                  [st EXCEPT !.current_chunk = SCat(para, ParaSep)],
                  chunk_size, document_id)

(* a chunker that returns without the chunk under construction *)
DropLastChunk(st, document_id) == st.chunks

AddLastChunk(st, document_id) ==
    IF st.current_chunk # EmptyStr
    THEN Append(st.chunks, TextChunk(document_id, st.current_chunk,
                                     st.chunk_index, Len(st.chunks) + 1))
    ELSE st.chunks

NoBackfill(chunks) == chunks

UpdateTotalChunks(chunks) ==
    [k \in 1..Len(chunks) |-> [chunks[k] EXCEPT !.total_chunks = Len(chunks)]]

CreateTextChunks(content, chunk_size, document_id) ==
    UpdateTotalChunks(
        AddLastChunk(
            ChunkLoop(SplitParagraphs(content), 1,
                      [current_chunk |-> EmptyStr, chunk_index |-> 0,
                       chunks |-> <<>>],
                      chunk_size, document_id),
            document_id))

(* ---------------------------------------------------------------------- *)
(* More string operations                                                  *)
(* ---------------------------------------------------------------------- *)
StrOf(chars) == SJoinAll([i \in 1..Len(chars) |-> SRep(chars[i], 1)])

LowerChar(c) ==
    CASE c = "A" -> "a" [] c = "B" -> "b" [] c = "C" -> "c" [] c = "D" -> "d"
      [] c = "E" -> "e" [] c = "F" -> "f" [] c = "G" -> "g" [] c = "H" -> "h"
      [] c = "I" -> "i" [] c = "J" -> "j" [] c = "K" -> "k" [] c = "L" -> "l"
      [] c = "M" -> "m" [] c = "N" -> "n" [] c = "O" -> "o" [] c = "P" -> "p"
      [] c = "Q" -> "q" [] c = "R" -> "r" [] c = "S" -> "s" [] c = "T" -> "t"
      [] c = "U" -> "u" [] c = "V" -> "v" [] c = "W" -> "w" [] c = "X" -> "x"
      [] c = "Y" -> "y" [] c = "Z" -> "z" [] OTHER -> c

(* s.lower() *)
SLower(s) ==
    SJoinAll([i \in 1..Len(s) |-> SRep(LowerChar(s[i].c), s[i].n)])

IsSpaceChar(c) == c \in {" ", NL, "\\t", "\\r"}

(* s.strip() *)
SStrip(s) ==
    LET keep == {i \in 1..Len(s) : ~IsSpaceChar(s[i].c)} IN
    IF keep = {} THEN <<>>
    ELSE SubSeq(s, KthOf(keep, 1), KthOf(keep, Cardinality(keep)))

(* s.startswith(p) *)
SStartsWith(s, p) ==
    \/ p = <<>>
    \/ /\ Len(s) >= Len(p)
       /\ \A i \in 1..(Len(p) - 1) : s[i] = p[i]
       /\ s[Len(p)].c = p[Len(p)].c
       /\ s[Len(p)].n >= p[Len(p)].n

(* p in s *)
SContains(s, p) ==
    \/ p = <<>>
    \/ /\ Len(p) = 1
       /\ \E i \in 1..Len(s) : s[i].c = p[1].c /\ s[i].n >= p[1].n
    \/ /\ Len(p) >= 2
       /\ \E i \in 1..(Len(s) - Len(p) + 1) :
            /\ s[i].c = p[1].c /\ s[i].n >= p[1].n
            /\ \A k \in 2..(Len(p) - 1) : s[i + k - 1] = p[k]
            /\ s[i + Len(p) - 1].c = p[Len(p)].c
            /\ s[i + Len(p) - 1].n >= p[Len(p)].n

(* list(set(items)): the elements of a set in the iteration order the      *)
(* interpreter's string hashing gives them in this run                     *)
SetOrders(S) ==
    {f \in [1..Cardinality(S) -> S] : \A i, j \in 1..Cardinality(S) :
                                         i # j => f[i] # f[j]}

ListOfSet(S, hashseed) ==
    LET n == Cardinality(S)
        f == CHOOSE g \in SetOrders(S) : TRUE
    IN  IF hashseed = 0 THEN f ELSE [i \in 1..n |-> f[n + 1 - i]]

SeqRange(q) == {q[i] : i \in 1..Len(q)}

(* ---------------------------------------------------------------------- *)
(* DocumentType and DocumentTypeDetector                                   *)
(* ---------------------------------------------------------------------- *)
DocumentType ==
    {"excel", "word", "pdf", "powerpoint", "image", "text", "email", "html",
     "code", "archive", "unknown"}

EXTENSION_MAP ==
    [xlsx |-> "excel", xls |-> "excel", xlsm |-> "excel", csv |-> "excel",
     tsv |-> "excel",
     docx |-> "word", doc |-> "word", rtf |-> "word", odt |-> "word",
     pdf |-> "pdf",
     pptx |-> "powerpoint", ppt |-> "powerpoint", odp |-> "powerpoint",
     jpg |-> "image", jpeg |-> "image", png |-> "image", gif |-> "image",
     bmp |-> "image", tiff |-> "image", tif |-> "image", webp |-> "image",
     txt |-> "text", md |-> "text", markdown |-> "text", log |-> "text",
     json |-> "text", xml |-> "text", yaml |-> "text", yml |-> "text",
     ini |-> "text", cfg |-> "text", conf |-> "text",
     eml |-> "email", msg |-> "email", mbox |-> "email",
     html |-> "html", htm |-> "html", xhtml |-> "html",
     py |-> "code", js |-> "code", java |-> "code", c |-> "code",
     cpp |-> "code", cs |-> "code", php |-> "code", rb |-> "code",
     go |-> "code", rs |-> "code", swift |-> "code", kt |-> "code",
     scala |-> "code", r |-> "code", sql |-> "code", sh |-> "code",
     bat |-> "code", ps1 |-> "code",
     zip |-> "archive", rar |-> "archive", 7z |-> "archive",
     tar |-> "archive", gz |-> "archive", bz2 |-> "archive"]

(* the characters of a piece *)
PieceChars(t) ==
    CASE t = "txt" -> <<"t", "x", "t">>
      [] t = "TXT" -> <<"T", "X", "T">>
      [] t = "json" -> <<"j", "s", "o", "n">>
      [] t = "pdf" -> <<"p", "d", "f">>
      [] t = "PDF" -> <<"P", "D", "F">>
      [] t = "docx" -> <<"d", "o", "c", "x">>
      [] t = "xlsx" -> <<"x", "l", "s", "x">>
      [] t = "png" -> <<"p", "n", "g">>
      [] t = "Png" -> <<"P", "n", "g">>
      [] t = "tiff" -> <<"t", "i", "f", "f">>
      [] t = "eml" -> <<"e", "m", "l">>
      [] t = "zip" -> <<"z", "i", "p">>
      [] t = "log" -> <<"l", "o", "g">>
      [] t = "tar" -> <<"t", "a", "r">>
      [] t = "gz" -> <<"g", "z">>
      [] t = "sub" -> <<"s", "u", "b">>
      [] t = "JPG" -> <<"J", "P", "G">>
      [] t = "xls" -> <<"x", "l", "s">>
      [] t = "gif" -> <<"g", "i", "f">>
      [] t = "jpg" -> <<"j", "p", "g">>
      [] t = "Txt" -> <<"T", "x", "t">>
      [] t = "xyz" -> <<"x", "y", "z">>
      [] OTHER -> <<t>>

(* A path is the sequence of its pieces, the dots and slashes being pieces  *)
(* of their own: <<"docs", "/", "notes", ".", "TXT">>.                      *)
LowerPieceAsWritten(t) == t

(* str.lower() of an extension, as the table key it spells (the piece      *)
(* itself when it spells none)                                             *)
LowerPiece(t) ==
    LET lowered == [i \in 1..Len(PieceChars(t)) |-> LowerChar(PieceChars(t)[i])]
    IN  IF \E k \in DOMAIN EXTENSION_MAP : PieceChars(k) = lowered
        THEN CHOOSE k \in DOMAIN EXTENSION_MAP : PieceChars(k) = lowered
        ELSE t

(* Path(file_path).name: the last component, the empty components and the  *)
(* components "." being dropped                                            *)
PathName(path) ==
    LET n == Len(path)
        comps == {c \in (1..n) \X (1..n) :
                     /\ c[1] <= c[2]
                     /\ \A k \in c[1]..c[2] : path[k] # "/"
                     /\ (c[1] = 1 \/ path[c[1] - 1] = "/")
                     /\ (c[2] = n \/ path[c[2] + 1] = "/")
                     /\ ~(c[1] = c[2] /\ path[c[1]] = ".")}
    IN  IF comps = {} THEN <<>>
        ELSE LET c == CHOOSE c \in comps : \A d \in comps : d[1] <= c[1]
             IN  SubSeq(path, c[1], c[2])

LastDot(name) ==
    IF \E i \in 1..Len(name) : name[i] = "."
    THEN CHOOSE i \in 1..Len(name) :
            /\ name[i] = "."
            /\ \A j \in (i + 1)..Len(name) : name[j] # "."
    ELSE 0

(* Path(file_path).suffix: from the last dot of the name, unless that dot  *)
(* is the first or the last character                                      *)
PathSuffix(path) ==
    LET name == PathName(path)
        i == LastDot(name)
    IN  IF 1 < i /\ i < Len(name) THEN SubSeq(name, i, Len(name)) ELSE <<>>

(* the suffix, lowercased, without its dot: pieces hold no dot, so a       *)
(* table key is one piece                                                  *)
SuffixKey(path) ==
    LET sfx == PathSuffix(path) IN
    IF Len(sfx) = 2 THEN LowerPiece(sfx[2]) ELSE ""

Detect(file_path) ==
    LET ext == SuffixKey(file_path) IN
    IF ext \in DOMAIN EXTENSION_MAP THEN EXTENSION_MAP[ext] ELSE "unknown"

(* ---------------------------------------------------------------------- *)
(* Rendering of names and numbers into strings (f-strings)                 *)
(* ---------------------------------------------------------------------- *)
Digits == <<"0", "1", "2", "3", "4", "5", "6", "7", "8", "9">>

RECURSIVE IntStr(_)
IntStr(n) ==
    IF n < 10 THEN SRep(Digits[n + 1], 1)
    ELSE SCat(IntStr(n \div 10), SRep(Digits[(n % 10) + 1], 1))

IntPiece(n) == Digits[n + 1]

NameStr(name) ==
    SJoinAll([i \in 1..Len(name) |-> StrOf(PieceChars(name[i]))])

(* ---------------------------------------------------------------------- *)
(* The files: what the file system and the extraction libraries answer     *)
(* for the bytes of a file                                                 *)
(* ---------------------------------------------------------------------- *)
BigText ==
    SJoinAll(<<SRep("a", 10), ParaSep, SRep("b", 4987), ParaSep,
               SRep("c", 6000)>>)

DQ == "dquote"

BT == "backtick"

JsonText == StrOf(<<"{", DQ, "a", DQ, ":", "1", "}">>)

MailText == StrOf(<<"F", "r", "o", "m", ":", " ", "x">>)

LogText == StrOf(<<"E", "R", "R", "O", "R", " ", "c", "i", "c", "s">>)

(* texts around the chunking threshold: 9,999, 10,000 and 10,001 characters *)
TextOfLen(n) ==
    SJoinAll(<<SRep("a", 4000), ParaSep, SRep("b", 4000), ParaSep,
               SRep("c", n - 8004)>>)

(* open(path, 'r', encoding=e).read(): the decoded content, or the         *)
(* UnicodeDecodeError the read raises                                      *)
Decoded(text) == [err |-> "none", text |-> text]

DecodeError == [err |-> "UnicodeDecodeError", text |-> EmptyStr]

(* ---------------------------------------------------------------------- *)
(* The codecs: a file is a sequence of bytes, a decoded text a sequence of *)
(* code points                                                             *)
(* ---------------------------------------------------------------------- *)
(* the character of a code point *)
CodePointChar(cp) ==
    CASE cp = 10 -> NL [] cp = 13 -> "\\r" [] cp = 65 -> "A"
      [] cp = 75 -> "K" [] cp = 80 -> "P"
      [] cp = 3 -> "\\x03" [] cp = 4 -> "\\x04" [] cp = 129 -> "\\x81"
      [] cp = 137 -> "\\x89" [] cp = 169 -> "\\u00a9" [] cp = 193 -> "\\u00c1"
      [] cp = 195 -> "\\u00c3" [] cp = 233 -> "\\u00e9" [] cp = 255 -> "\\xff"
      [] OTHER -> "\\u" \o ToString(cp)

(* how many continuation bytes a UTF-8 lead byte announces, -1 for a byte  *)
(* that cannot lead                                                        *)
Utf8Need(b) ==
    IF b < 128 THEN 0
    ELSE IF b \in 194..223 THEN 1
    ELSE IF b \in 224..239 THEN 2
    ELSE IF b \in 240..244 THEN 3
    ELSE -1

Utf8SecondOk(lead, b) ==
    CASE lead = 224 -> b \in 160..191
      [] lead = 237 -> b \in 128..159
      [] lead = 240 -> b \in 144..191
      [] lead = 244 -> b \in 128..143
      [] OTHER -> b \in 128..191

(* a well-formed UTF-8 sequence starts at byte i *)
Utf8WellFormedAt(bytes, i) ==
    LET n == Utf8Need(bytes[i]) IN
    /\ n >= 0
    /\ i + n <= Len(bytes)
    /\ n >= 1 => Utf8SecondOk(bytes[i], bytes[i + 1])
    /\ \A j \in 2..n : bytes[i + j] \in 128..191

Utf8CodePoint(bytes, i) ==
    LET n == Utf8Need(bytes[i])
        C(j) == bytes[i + j] - 128
    IN  CASE n = 0 -> bytes[i]
          [] n = 1 -> (bytes[i] - 192) * 64 + C(1)
          [] n = 2 -> (bytes[i] - 224) * 4096 + C(1) * 64 + C(2)
          [] OTHER -> (bytes[i] - 240) * 262144 + C(1) * 4096 + C(2) * 64 + C(3)

(* bytes.decode('utf-8', errors): strict raises at the first ill-formed    *)
(* byte, ignore drops it                                                   *)
RECURSIVE Utf8From(_, _, _)
Utf8From(bytes, i, strict) ==
    IF i > Len(bytes) THEN [err |-> "none", cps |-> <<>>]
    ELSE IF Utf8WellFormedAt(bytes, i)
    THEN LET rest == Utf8From(bytes, i + Utf8Need(bytes[i]) + 1, strict)
         IN  [err |-> rest.err, cps |-> <<Utf8CodePoint(bytes, i)>> \o rest.cps]
    ELSE IF strict THEN [err |-> "UnicodeDecodeError", cps |-> <<>>]
    ELSE Utf8From(bytes, i + 1, strict)

Utf8Decode(bytes) == Utf8From(bytes, 1, TRUE)

Latin1DecodeAscii(bytes) ==
    IF \E i \in 1..Len(bytes) : bytes[i] >= 128
    THEN [err |-> "UnicodeDecodeError", cps |-> <<>>]
    ELSE [err |-> "none", cps |-> bytes]

(* latin-1 and iso-8859-1: byte b is code point b, for every byte *)
Latin1Decode(bytes) == [err |-> "none", cps |-> bytes]

Cp1252Undefined == {129, 141, 143, 144, 157}

Cp1252High ==
    (128 :> 8364) @@ (130 :> 8218) @@ (131 :> 402) @@ (132 :> 8222) @@
    (133 :> 8230) @@ (134 :> 8224) @@ (135 :> 8225) @@ (136 :> 710) @@
    (137 :> 8240) @@ (138 :> 352) @@ (139 :> 8249) @@ (140 :> 338) @@
    (142 :> 381) @@ (145 :> 8216) @@ (146 :> 8217) @@ (147 :> 8220) @@
    (148 :> 8221) @@ (149 :> 8226) @@ (150 :> 8211) @@ (151 :> 8212) @@
    (152 :> 732) @@ (153 :> 8482) @@ (154 :> 353) @@ (155 :> 8250) @@
    (156 :> 339) @@ (158 :> 382) @@ (159 :> 376)

Cp1252Decode(bytes) ==
    IF \E i \in 1..Len(bytes) : bytes[i] \in Cp1252Undefined
    THEN [err |-> "UnicodeDecodeError", cps |-> <<>>]
    ELSE [err |-> "none",
          cps |-> [i \in 1..Len(bytes) |->
                      IF bytes[i] \in DOMAIN Cp1252High
                      THEN Cp1252High[bytes[i]] ELSE bytes[i]]]

(* text mode: \r\n and \r are read as \n *)
RECURSIVE UniversalNewlines(_)
UniversalNewlines(cps) ==
    IF cps = <<>> THEN <<>>
    ELSE IF Head(cps) = 13
    THEN <<10>> \o UniversalNewlines(IF Len(cps) >= 2 /\ cps[2] = 10
                                     THEN SubSeq(cps, 3, Len(cps))
                                     ELSE Tail(cps))
    ELSE <<Head(cps)>> \o UniversalNewlines(Tail(cps))

TextOfCodePoints(cps) == StrOf([i \in 1..Len(cps) |-> CodePointChar(cps[i])])

(* open(path, 'r', encoding=encoding).read() on a file holding bytes *)
DecodeBytes(bytes, encoding) ==
    LET d == CASE encoding = "utf-8" -> Utf8Decode(bytes)
               [] encoding = "cp1252" -> Cp1252Decode(bytes)
               [] OTHER -> Latin1Decode(bytes)
    IN  IF d.err # "none" THEN DecodeError
        ELSE Decoded(TextOfCodePoints(UniversalNewlines(d.cps)))

(* open(path, 'rb').read().decode('utf-8', errors='ignore') *)
DecodeBytesIgnore(bytes) == TextOfCodePoints(Utf8From(bytes, 1, FALSE).cps)

(* the bytes of the files that are not plain ASCII text *)
FileBytes(data) ==
    CASE data = "zip" -> <<80, 75, 3, 4, 255>>
      [] OTHER -> <<137, 80>>

AsciiTexts == {"big", "json", "empty", "mail", "log", "t9999", "t10000", "t10001"}

(* what each codec answers for the bytes of a file: an ASCII text decodes  *)
(* to itself under all four                                                *)
DecodeAs(data, encoding) ==
    CASE data = "big" -> Decoded(BigText)
      [] data = "json" -> Decoded(JsonText)
      [] data = "empty" -> Decoded(EmptyStr)
      [] data = "mail" -> Decoded(MailText)
      [] data = "log" -> Decoded(LogText)
      [] data = "t9999" -> Decoded(TextOfLen(9999))
      [] data = "t10000" -> Decoded(TextOfLen(10000))
      [] data = "t10001" -> Decoded(TextOfLen(10001))
      [] OTHER -> DecodeBytes(FileBytes(data), encoding)

(* f.read().decode('utf-8', errors='ignore') *)
DecodeIgnore(data) ==
    IF data \in AsciiTexts THEN DecodeAs(data, "utf-8").text
    ELSE DecodeBytesIgnore(FileBytes(data))

(* the JSON documents among the contents of the model *)
JsonDocuments ==
    {<<"{", DQ, "a", DQ, ":", "1", "}">>,
     <<"{", DQ, "a", DQ, ":", " ", "1", "}">>,
     <<"{", DQ, "k", DQ, ":", " ", DQ, "#", " ", "d", "e", "f", " ",
       "E", "R", "R", "O", "R", DQ, "}">>,
     <<"[", "1", "]">>,
     <<NL, "[", "1", "]", NL>>,
     <<"1">>,
     <<DQ, "a", DQ>>,
     <<"n", "u", "l", "l">>}

(* json.loads(content) returns rather than raises *)
JsonLoadsOk(content) == \E d \in JsonDocuments : content = StrOf(d)

FileSize(data) ==
    IF DecodeAs(data, "utf-8").err = "none"
    THEN SLen(DecodeAs(data, "utf-8").text)
    ELSE SLen(DecodeAs(data, "latin-1").text)

(* hashlib.sha256 over the bytes: equal bytes, equal digest *)
Sha256Hex(data) == <<"sha256", data>>

(* PIL.Image.open / pytesseract.image_to_string for the bytes *)
ImageView(data) ==
    CASE data = "png" ->
            [opens |-> TRUE, ocr_err |-> "none",
             ocr |-> StrOf(<<"J", "C", "L">>), width |-> 10,
             height |-> 20, format |-> "PNG"]
      [] data = "blank" ->
            [opens |-> TRUE, ocr_err |-> "none",
             ocr |-> StrOf(<<" ", NL>>), width |-> 3,
             height |-> 4, format |-> "TIFF"]
      [] data = "scan600" ->
            [opens |-> TRUE, ocr_err |-> "none",
             ocr |-> SCat(StrOf(<<"J", "O", "B", NL>>), SRep("x", 600)),
             width |-> 800, height |-> 600, format |-> "JPEG"]
      [] data = "noocr" ->
            [opens |-> TRUE, ocr_err |-> "TesseractError",
             ocr |-> EmptyStr, width |-> 3,
             height |-> 4, format |-> "PNG"]
      [] OTHER ->
            [opens |-> FALSE, ocr_err |-> "none", ocr |-> EmptyStr,
             width |-> 0,
             height |-> 0, format |-> "None"]

(* ---------------------------------------------------------------------- *)
(* BaseProcessor                                                           *)
(* ---------------------------------------------------------------------- *)
(* self._calculate_checksum(): the digest, or the error open() raises      *)
CalculateChecksum(file) ==
    IF file.fault = "open"
    THEN [err |-> "PermissionError", digest |-> <<>>]
    ELSE [err |-> "none", digest |-> Sha256Hex(file.data)]

(* self._extract_metadata(): the DocumentMetadata, or the error raised by  *)
(* path.stat() or by the checksum                                          *)
NoMetadata == [file_name |-> <<>>]

ExtractMetadata(file) ==
    IF file.fault = "stat"
    THEN [err |-> "FileNotFoundError", metadata |-> NoMetadata]
    ELSE IF CalculateChecksum(file).err # "none"
    THEN [err |-> CalculateChecksum(file).err, metadata |-> NoMetadata]
    ELSE [err |-> "none",
          metadata |->
            [file_name |-> file.name,
             file_path |-> <<"/", "abs", "/">> \o file.name,
             file_size |-> FileSize(file.data),
             file_type |-> Detect(file.name),
             author |-> "None", title |-> "None", subject |-> "None",
             keywords |-> <<>>, language |-> "None", page_count |-> "None",
             word_count |-> "None", has_images |-> FALSE,
             has_tables |-> FALSE, has_attachments |-> FALSE,
             encoding |-> "None",
             checksum |-> CalculateChecksum(file).digest]]

KnowledgeBaseEntry(uuid, title, content, summary, category, tags, confidence_score, source, document_type, metadata, chunks) ==
    [uuid |-> uuid, title |-> title, content |-> content, summary |-> summary,
     category |-> category, tags |-> tags,
     confidence_score |-> confidence_score, source |-> source,
     document_type |-> document_type, metadata |-> metadata,
     chunks |-> chunks, created_by |-> "auto_import"]

(* confidence scores are held in hundredths: 95 is 0.95 *)

(* ---------------------------------------------------------------------- *)
(* TextProcessor                                                           *)
(* ---------------------------------------------------------------------- *)
TextChunkThreshold == 10000

DefaultChunkSize == 5000

(* a test that also chunks a content of exactly the threshold length *)
NeedsChunksInclusive(content) == SLen(content) >= TextChunkThreshold

(* if len(content) > 10000 *)
NeedsChunks(content) == SLen(content) > TextChunkThreshold

EncodingsIsoFirst == <<"utf-8", "iso-8859-1", "cp1252", "latin-1">>

(* encodings = ['utf-8', 'latin-1', 'cp1252', 'iso-8859-1'] *)
Encodings == <<"utf-8", "latin-1", "cp1252", "iso-8859-1">>

(* the for loop over the encodings, D(encoding) being what the read under  *)
(* that encoding gives: the first that decodes, 0 when none                *)
FirstOk(D(_)) ==
    IF \E k \in 1..Len(Encodings) : D(Encodings[k]).err = "none"
    THEN CHOOSE k \in 1..Len(Encodings) :
            /\ D(Encodings[k]).err = "none"
            /\ \A j \in 1..(k - 1) : D(Encodings[j]).err # "none"
    ELSE 0

FirstDecoding(data) ==
    LET D(encoding) == DecodeAs(data, encoding) IN FirstOk(D)

ReadContent(data) ==
    IF FirstDecoding(data) = 0 THEN DecodeIgnore(data)
    ELSE DecodeAs(data, Encodings[FirstDecoding(data)]).text

EncodingAfterRead(data, before) ==
    IF FirstDecoding(data) = 0 THEN before
    ELSE Encodings[FirstDecoding(data)]

(* lines 742-756 on a file holding bytes: the encodings opened, in order   *)
(* (and the permissive read if it is reached), self.metadata.encoding and  *)
(* content afterwards                                                      *)
ReadBytes(bytes, before) ==
    LET D(encoding) == DecodeBytes(bytes, encoding)
        k == FirstOk(D)
    IN  IF k = 0
        THEN [tried |-> Append(Encodings, "utf-8/ignore"), encoding |-> before,
              content |-> DecodeBytesIgnore(bytes)]
        ELSE [tried |-> SubSeq(Encodings, 1, k), encoding |-> Encodings[k],
              content |-> D(Encodings[k]).text]

AnyContains(content, patterns) ==
    \E q \in patterns : SContains(content, StrOf(q))

MarkdownPatterns ==
    {<<"#", " ">>, <<"#", "#", " ">>, <<BT, BT, BT>>,
     <<"[", "]", "(">>, <<"!", "[", "]", "(">>}

CodePatterns ==
    {<<"i", "m", "p", "o", "r", "t", " ">>,
     <<"f", "u", "n", "c", "t", "i", "o", "n", " ">>,
     <<"c", "l", "a", "s", "s", " ">>, <<"d", "e", "f", " ">>,
     <<"S", "E", "L", "E", "C", "T", " ">>,
     <<"C", "R", "E", "A", "T", "E", " ", "T", "A", "B", "L", "E">>}

LogWords ==
    {<<"e", "r", "r", "o", "r">>, <<"w", "a", "r", "n", "i", "n", "g">>,
     <<"i", "n", "f", "o">>, <<"d", "e", "b", "u", "g">>,
     <<"t", "r", "a", "c", "e">>}

(* a test that takes only an object for JSON *)
StartsLikeJsonObjectOnly(content) ==
    SStartsWith(SStrip(content), StrOf(<<"{">>))

(* content.strip().startswith('{') or content.strip().startswith('[') *)
StartsLikeJson(content) ==
    \/ SStartsWith(SStrip(content), StrOf(<<"{">>))
    \/ SStartsWith(SStrip(content), StrOf(<<"[">>))

(* a detection that tests the YAML rule before the markup rule *)
DetectContentTypeYamlFirst(content) ==
    IF StartsLikeJson(content) /\ JsonLoadsOk(content)
    THEN "JSON"
    ELSE IF \/ SStartsWith(content, StrOf(<<"-", "-", "-">>))
            \/ SContains(SPrefix(content, 100), StrOf(<<":", " ">>))
    THEN "YAML"
    ELSE IF SStartsWith(SStrip(content), StrOf(<<"<">>))
    THEN IF SContains(SLower(content), StrOf(<<"<", "h", "t", "m", "l">>))
         THEN "HTML" ELSE "XML"
    ELSE IF AnyContains(content, MarkdownPatterns) THEN "Markdown"
    ELSE IF AnyContains(content, CodePatterns) THEN "Code"
    ELSE IF AnyContains(SPrefix(SLower(content), 1000), LogWords) THEN "Log"
    ELSE "Text"

DetectContentType(content) ==
    IF StartsLikeJson(content) /\ JsonLoadsOk(content)
    THEN "JSON"
    ELSE IF SStartsWith(SStrip(content), StrOf(<<"<">>))
    THEN IF SContains(SLower(content), StrOf(<<"<", "h", "t", "m", "l">>))
         THEN "HTML" ELSE "XML"
    ELSE IF \/ SStartsWith(content, StrOf(<<"-", "-", "-">>))
            \/ SContains(SPrefix(content, 100), StrOf(<<":", " ">>))
    THEN "YAML"
    ELSE IF AnyContains(content, MarkdownPatterns) THEN "Markdown"
    ELSE IF AnyContains(content, CodePatterns) THEN "Code"
    ELSE IF AnyContains(SPrefix(SLower(content), 1000), LogWords) THEN "Log"
    ELSE "Text"

ContentTypeChars(content_type) ==
    CASE content_type = "JSON" -> <<"J", "S", "O", "N">>
      [] content_type = "HTML" -> <<"H", "T", "M", "L">>
      [] content_type = "XML" -> <<"X", "M", "L">>
      [] content_type = "YAML" -> <<"Y", "A", "M", "L">>
      [] content_type = "Markdown" -> <<"M", "a", "r", "k", "d", "o", "w", "n">>
      [] content_type = "Code" -> <<"C", "o", "d", "e">>
      [] content_type = "Log" -> <<"L", "o", "g">>
      [] content_type = "Text" -> <<"T", "e", "x", "t">>

(* content_type.lower(), as a tag *)
ContentTypeTag(content_type) ==
    CASE content_type = "JSON" -> "json" [] content_type = "HTML" -> "html"
      [] content_type = "XML" -> "xml" [] content_type = "YAML" -> "yaml"
      [] content_type = "Markdown" -> "markdown"
      [] content_type = "Code" -> "code" [] content_type = "Log" -> "log"
      [] content_type = "Text" -> "text"

MainframeKeywords ==
    [mainframe |-> <<"m", "a", "i", "n", "f", "r", "a", "m", "e">>,
     cobol |-> <<"c", "o", "b", "o", "l">>, jcl |-> <<"j", "c", "l">>,
     cics |-> <<"c", "i", "c", "s">>, db2 |-> <<"d", "b", "2">>,
     ims |-> <<"i", "m", "s">>, vsam |-> <<"v", "s", "a", "m">>,
     rexx |-> <<"r", "e", "x", "x">>, racf |-> <<"r", "a", "c", "f">>,
     tso |-> <<"t", "s", "o">>, ispf |-> <<"i", "s", "p", "f">>,
     sdsf |-> <<"s", "d", "s", "f">>, sort |-> <<"s", "o", "r", "t">>,
     idcams |-> <<"i", "d", "c", "a", "m", "s">>]

ExtractTextTags(content, content_type, hashseed) ==
    ListOfSet({ContentTypeTag(content_type)} \cup
              {k \in DOMAIN MainframeKeywords :
                  SContains(SLower(content), StrOf(MainframeKeywords[k]))},
              hashseed)

(* content.count('\n') *)
CountNewlines(s) ==
    SumRange([i \in 1..Len(s) |-> IF s[i].c = NL THEN s[i].n ELSE 0],
             1, Len(s))

(* a count of lines in the place of the count of characters *)
CharacterCountAsLines(content) == CountNewlines(content) + 1

(* "characters": len(content) *)
CharacterCount(content) == SLen(content)

BackfillEncodingAndType(metadata, encoding) ==
    [metadata EXCEPT !.encoding = encoding, !.file_type = "text"]

(* self.metadata.encoding = encoding *)
BackfillEncoding(metadata, encoding) == [metadata EXCEPT !.encoding = encoding]

(* TextProcessor.process(): nothing is raised out of it; the with blocks   *)
(* close the file on every path                                            *)
TextProcess(file, metadata, hashseed) ==
    LET content == ReadContent(file.data)
        encoding == EncodingAfterRead(file.data, metadata.encoding)
        content_type == DetectContentType(content)
        chunks == IF NeedsChunks(content)
                  THEN CreateTextChunks(content, DefaultChunkSize,
                                        metadata.checksum)
                  ELSE <<>>
    IN  [raised |-> "none",
         entries |-> <<KnowledgeBaseEntry(
              metadata.checksum,
              SJoinAll(<<StrOf(<<"[">>), StrOf(ContentTypeChars(content_type)),
                         StrOf(<<"]", " ">>), NameStr(file.name)>>),
              content, SPrefix(content, 1000), content_type,
              ExtractTextTags(content, content_type, hashseed), 95,
              file.name, "text",
              [lines |-> CountNewlines(content) + 1,
               characters |-> CharacterCount(content), encoding |-> encoding,
               content_type |-> content_type],
              chunks)>>,
         metadata |-> BackfillEncoding(metadata, encoding),
         open_handles |-> {}]

(* ---------------------------------------------------------------------- *)
(* ImageProcessor                                                          *)
(* ---------------------------------------------------------------------- *)
OcrContentPrefix ==
    StrOf(<<"T", "e", "x", "t", "o", " ", "e", "x", "t", "r", "a", "\\u00ed",
            "d", "o", " ", "d", "a", " ", "i", "m", "a", "g", "e", "m", ":",
            NL, NL>>)

ImageFormatTag(format) ==
    CASE format = "PNG" -> "png" [] format = "TIFF" -> "tiff"
      [] format = "JPEG" -> "jpeg" [] OTHER -> "unknown"

ImageFormatChars(format) ==
    CASE format = "PNG" -> <<"P", "N", "G">>
      [] format = "TIFF" -> <<"T", "I", "F", "F">>
      [] format = "JPEG" -> <<"J", "P", "E", "G">>
      [] OTHER -> <<"N", "o", "n", "e">>

(* a test that takes whitespace for text *)
HasTextUnstripped(text) == text # EmptyStr

(* if text.strip() *)
HasText(text) == SStrip(text) # EmptyStr

(* ImageProcessor.process(): Image.open() is not in a with block and the   *)
(* image is never closed                                                   *)
ImageProcess(file, metadata, hashseed) ==
    LET img == ImageView(file.data)
        text == img.ocr
        img_meta == [width |-> img.width, height |-> img.height,
                     format |-> img.format,
                     has_text |-> SLen(SStrip(text)) > 0]
        dims == SJoinAll(<<IntStr(img.width), StrOf(<<"x">>),
                           IntStr(img.height)>>)
        ocr_entry == KnowledgeBaseEntry(
              metadata.checksum \o <<"_ocr">>,
              SCat(StrOf(<<"[", "O", "C", "R", "]", " ">>), NameStr(file.name)),
              SCat(OcrContentPrefix, text), SPrefix(text, 500), "Image OCR",
              <<"imagem", "ocr", "texto_extra\\u00eddo">>, 70, file.name,
              "image_ocr", img_meta, <<>>)
        img_entry == KnowledgeBaseEntry(
              metadata.checksum,
              SCat(StrOf(<<"[", "I", "m", "a", "g", "e", "m", "]", " ">>),
                   NameStr(file.name)),
              SJoinAll(<<StrOf(<<"I", "m", "a", "g", "e", "m", ":", " ">>),
                         NameStr(file.name),
                         StrOf(<<NL, "D", "i", "m", "e", "n", "s", "\\u00f5",
                                 "e", "s", ":", " ">>),
                         dims,
                         StrOf(<<NL, "F", "o", "r", "m", "a", "t", "o", ":",
                                 " ">>),
                         StrOf(ImageFormatChars(img.format))>>),
              SJoinAll(<<StrOf(<<"A", "r", "q", "u", "i", "v", "o", " ", "d",
                                 "e", " ", "i", "m", "a", "g", "e", "m", " ">>),
                         StrOf(ImageFormatChars(img.format)),
                         StrOf(<<" ", "(">>), dims, StrOf(<<")">>)>>),
              "Image", <<"imagem", ImageFormatTag(img.format)>>, 100,
              file.name, "image", img_meta, <<>>)
    IN  IF ~img.opens
        THEN [raised |-> "none", entries |-> <<>>, metadata |-> metadata,
              open_handles |-> {}]
        ELSE IF img.ocr_err # "none"
        THEN [raised |-> "none", entries |-> <<>>, metadata |-> metadata,
              open_handles |-> {<<"image", file.name>>}]
        ELSE [raised |-> "none",
              entries |-> IF HasText(text)
                          THEN <<ocr_entry, img_entry>> ELSE <<img_entry>>,
              metadata |-> metadata,
              open_handles |-> {<<"image", file.name>>}]

(* ---------------------------------------------------------------------- *)
(* PDFProcessor                                                            *)
(* ---------------------------------------------------------------------- *)
(* what pdfplumber and PyPDF2 answer for the bytes: a page is              *)
(* [text, tables], a table a sequence of rows, a row a sequence of cells   *)
(* (the empty string for an empty or None cell); tables_raise: a call of   *)
(* extract_tables raises; entry_raises: the table (counted from 1) at      *)
(* whose entry the with block raises after the document entry was          *)
(* appended, 0 for none                                                    *)
PdfView(data) ==
    CASE data = "pdf3" ->
            [plumber |-> "ok", tables_raise |-> FALSE, pypdf |-> "ok", entry_raises |-> 0,
             pages |-> <<[text |-> StrOf(<<"M", "a", "n", "u", "a", "l">>),
                          tables |-> <<>>],
                         [text |-> StrOf(<<"t", "w", "o">>),
                          tables |-> <<
                              <<<<StrOf(<<"h">>), StrOf(<<"k">>)>>,
                                <<StrOf(<<"1">>), EmptyStr>>>>,
                              <<<<StrOf(<<"x">>)>>>> >>],
                         [text |-> StrOf(<<"e", "n", "d">>),
                          tables |-> <<>>]>>]
      [] data = "pdfscan" ->
            [plumber |-> "ok", tables_raise |-> FALSE, pypdf |-> "ok", entry_raises |-> 0,
             pages |-> <<[text |-> EmptyStr, tables |-> <<>>],
                         [text |-> StrOf(<<"p", "2">>), tables |-> <<>>]>>]
      [] data = "pdflong" ->
            [plumber |-> "ok", tables_raise |-> FALSE, pypdf |-> "ok", entry_raises |-> 0,
             pages |-> <<[text |-> SRep("z", 1200), tables |-> <<>>]>>]
      [] data = "pdflate" ->
            [plumber |-> "ok", tables_raise |-> FALSE, pypdf |-> "ok",
             entry_raises |-> 2,
             pages |-> <<[text |-> StrOf(<<"o", "n", "e">>),
                          tables |-> <<
                              <<<<StrOf(<<"h">>)>>, <<StrOf(<<"1">>)>>>>,
                              <<<<StrOf(<<"h">>)>>, <<StrOf(<<"2">>)>>>> >>]>>]
      [] data = "pdftab" ->
            [plumber |-> "ok", tables_raise |-> TRUE, pypdf |-> "ok", entry_raises |-> 0,
             pages |-> <<[text |-> StrOf(<<"g", "u", "i", "d", "e">>),
                          tables |-> <<>>],
                         [text |-> StrOf(<<"b">>), tables |-> <<>>]>>]
      [] data = "pdf3tab" ->
            [plumber |-> "ok", tables_raise |-> TRUE, pypdf |-> "ok", entry_raises |-> 0,
             pages |-> <<[text |-> StrOf(<<"o", "n", "e">>), tables |-> <<>>],
                         [text |-> StrOf(<<"t", "w", "o">>), tables |-> <<>>],
                         [text |-> StrOf(<<"e", "n", "d">>),
                          tables |-> <<>>]>>]
      [] OTHER ->
            [plumber |-> "PDFSyntaxError", tables_raise |-> FALSE,
             entry_raises |-> 0,
             pypdf |-> "PdfReadError", pages |-> <<>>]

PageHeader(i) ==
    SJoinAll(<<StrOf(<<"-", "-", "-", " ", "P", "\\u00e1", "g", "i", "n", "a",
                       " ">>),
               IntStr(i), StrOf(<<" ", "-", "-", "-", NL>>)>>)

(* all_text: one block for every page whose text is not empty *)
RECURSIVE AllText(_, _)
AllText(pages, i) ==
    IF i > Len(pages) THEN <<>>
    ELSE (IF pages[i].text # EmptyStr
          THEN <<SCat(PageHeader(i), pages[i].text)>> ELSE <<>>)
         \o AllText(pages, i + 1)

RECURSIVE AllTables(_, _)
AllTables(pages, i) ==
    IF i > Len(pages) THEN <<>>
    ELSE pages[i].tables \o AllTables(pages, i + 1)

PdfKeywords ==
    [manual |-> <<"m", "a", "n", "u", "a", "l">>,
     guide |-> <<"g", "u", "i", "d", "e">>,
     tutorial |-> <<"t", "u", "t", "o", "r", "i", "a", "l">>,
     specification |-> <<"s", "p", "e", "c", "i", "f", "i", "c", "a", "t",
                         "i", "o", "n">>,
     documentation |-> <<"d", "o", "c", "u", "m", "e", "n", "t", "a", "t",
                         "i", "o", "n">>]

ExtractPdfTags(content, hashseed) ==
    ListOfSet({"pdf", "documento"} \cup
              {k \in DOMAIN PdfKeywords :
                  SContains(SLower(content), StrOf(PdfKeywords[k]))},
              hashseed)

PdfPageChunks(all_text, document_id) ==
    [i \in 1..Len(all_text) |->
        DocumentChunk(<<"page_", IntPiece(i - 1)>>, document_id, all_text[i],
                      "text", i - 1, Len(all_text), [page |-> i])]

PdfTitle(file_name) ==
    SCat(StrOf(<<"[", "P", "D", "F", "]", " ">>), NameStr(file_name))

NonEmptyCell(cell) == cell # EmptyStr

TableRowsText(table) ==
    SJoinAll([r \in 1..Len(table) |->
                 SCat(SJoin(StrOf(<<" ", "|", " ">>),
                            SelectSeq(table[r], NonEmptyCell)),
                      SRep(NL, 1))])

TableSkippedIfEmpty(table) == Len(table) < 1

(* not table or len(table) < 2 *)
TableSkipped(table) == Len(table) < 2

(* _create_table_entry: None (<<>>) for a table of fewer than 2 rows *)
CreateTableEntry(table, index, metadata, file_name) ==
    IF TableSkipped(table) THEN <<>>
    ELSE <<KnowledgeBaseEntry(
              metadata.checksum \o <<"_table_", IntPiece(index)>>,
              SJoinAll(<<StrOf(<<"[", "T", "a", "b", "e", "l", "a", " ", "P",
                                 "D", "F", "]", " ", "T", "a", "b", "e", "l",
                                 "a", " ">>),
                         IntStr(index + 1), StrOf(<<" ", "d", "e", " ">>),
                         NameStr(file_name)>>),
              SCat(StrOf(<<"T", "a", "b", "e", "l", "a", " ", "e", "x", "t",
                           "r", "a", "\\u00ed", "d", "a", ":", NL>>),
                   TableRowsText(table)),
              SJoinAll(<<StrOf(<<"T", "a", "b", "e", "l", "a", " ", "c", "o",
                                 "m", " ">>),
                         IntStr(Len(table)),
                         StrOf(<<" ", "l", "i", "n", "h", "a", "s", " ", "e",
                                 " ">>),
                         IntStr(Len(table[1])),
                         StrOf(<<" ", "c", "o", "l", "u", "n", "a", "s">>)>>),
              "Table", <<"tabela", "pdf", "dados">>, 80, file_name,
              "pdf_table", [table_index |-> index, rows |-> Len(table)],
              <<>>)>>

RECURSIVE TableEntries(_, _, _, _)
TableEntries(tables, i, metadata, file_name) ==
    IF i > Len(tables) THEN <<>>
    ELSE CreateTableEntry(tables[i], i - 1, metadata, file_name)
         \o TableEntries(tables, i + 1, metadata, file_name)

(* the with PDF.open(...) block: the entries it has appended when it ends  *)
(* or raises, upto being the number of tables whose entry was built        *)
PdfPlumberAppended(view, metadata, file_name, hashseed, upto) ==
    LET all_text == AllText(view.pages, 1)
        tables == AllTables(view.pages, 1)
        content == SJoin(ParaSep, all_text)
    IN  <<KnowledgeBaseEntry(
              metadata.checksum, PdfTitle(file_name), content,
              SPrefix(content, 1000), "Document",
              ExtractPdfTags(content, hashseed), 90, file_name, "pdf",
              [pages |-> Len(view.pages), has_tables |-> Len(tables) > 0],
              PdfPageChunks(all_text, metadata.checksum))>>
        \o TableEntries(SubSeq(tables, 1, upto), 1, metadata, file_name)

PdfPlumberEntries(view, metadata, file_name, hashseed) ==
    PdfPlumberAppended(view, metadata, file_name, hashseed,
                       Len(AllTables(view.pages, 1)))

(* the except branch: PyPDF2 *)
PdfFallbackEntries(view, metadata, file_name) ==
    LET content == SJoin(ParaSep, AllText(view.pages, 1))
    IN  <<KnowledgeBaseEntry(
              metadata.checksum, PdfTitle(file_name), content,
              SPrefix(content, 1000), "Document", <<"pdf">>, 70, file_name,
              "pdf", [pages |-> Len(view.pages)], <<>>)>>

(* what entries holds when the with block raises: nothing if it raised     *)
(* before line 475, else the document entry and the table entries built    *)
EntriesBeforeRaise(view, metadata, file_name, hashseed) ==
    IF view.plumber = "ok" /\ ~view.tables_raise
    THEN PdfPlumberAppended(view, metadata, file_name, hashseed,
                            view.entry_raises - 1)
    ELSE <<>>

(* PDFProcessor.process(): both files are opened in with blocks; the       *)
(* fallback appends to the same list                                       *)
PDFProcess(file, metadata, hashseed) ==
    LET view == PdfView(file.data)
    IN  [raised |-> "none",
         entries |->
            IF view.plumber = "ok" /\ ~view.tables_raise
               /\ view.entry_raises = 0
            THEN PdfPlumberEntries(view, metadata, file.name, hashseed)
            ELSE EntriesBeforeRaise(view, metadata, file.name, hashseed)
                 \o (IF view.pypdf = "ok"
                     THEN PdfFallbackEntries(view, metadata, file.name)
                     ELSE <<>>),
         metadata |-> metadata,
         open_handles |-> {}]

(* ---------------------------------------------------------------------- *)
(* WordProcessor                                                           *)
(* ---------------------------------------------------------------------- *)
(* what python-docx answers for the bytes *)
WordView(data) ==
    CASE data = "docx" ->
            [opens |-> "ok",
             paragraphs |-> <<StrOf(<<"i", "n", "t", "r", "o">>),
                              StrOf(<<" ">>),
                              StrOf(<<"A", "B", "C", " ", "r", "e", "p", "o",
                                      "r", "t">>)>>,
             tables |-> << << <<StrOf(<<"k">>), StrOf(<<" ">>)>>,
                              <<EmptyStr, EmptyStr>> >> >>,
             inline_shapes |-> 1]
      [] data = "docx2" ->
            [opens |-> "ok",
             paragraphs |-> <<StrOf(<<"1", "2", "3", NL, "#", "#", "#", "x">>)>>,
             tables |-> <<>>, inline_shapes |-> 0]
      [] data = "docx0" ->
            [opens |-> "ok", paragraphs |-> <<>>, tables |-> <<>>,
             inline_shapes |-> 0]
      [] data = "docxbr" ->
            [opens |-> "ok",
             paragraphs |-> <<StrOf(<<NL, "S", "T", "E", "P", " ", "1">>),
                              StrOf(<<"r", "u", "n", NL, NL, "#", "#", "#">>),
                              StrOf(<<" ", NL, "4", "2", "0">>)>>,
             tables |-> <<>>, inline_shapes |-> 0]
      [] OTHER ->
            [opens |-> "BadZipFile", paragraphs |-> <<>>, tables |-> <<>>,
             inline_shapes |-> 0]

IsHeadingChar(c) ==
    c \in {"A", "B", "C", "D", "E", "F", "G", "H", "I", "J", "K", "L", "M",
           "N", "O", "P", "Q", "R", "S", "T", "U", "V", "W", "X", "Y", "Z",
           "0", "1", "2", "3", "4", "5", "6", "7", "8", "9", "#"}

(* [A-Z\d#]{3,} matches at run j *)
HeadingAt(s, j) ==
    LET H(k) == j + k <= Len(s) /\ IsHeadingChar(s[j + k].c) IN
    /\ H(0)
    /\ \/ s[j].n >= 3
       \/ /\ H(1)
          /\ (s[j].n + s[j + 1].n >= 3 \/ H(2))

(* re.split(r'\n(?=[A-Z\d#]{3,})', content): the newline right before a    *)
(* heading is the separator and is dropped                                 *)
SplitSections(content) ==
    LET cuts == {i \in 1..Len(content) :
                    content[i].c = NL /\ HeadingAt(content, i + 1)}
        m == Cardinality(cuts)
        CutAt(k) == IF k > m THEN Len(content) + 1 ELSE KthOf(cuts, k)
    IN  [k \in 1..(m + 1) |->
            SubSeq(content, IF k = 1 THEN 1 ELSE CutAt(k - 1) + 1, CutAt(k) - 1)
            \o (IF k <= m THEN SRep(NL, content[CutAt(k)].n - 1) ELSE <<>>)]

SectionKeptAlways(section) == TRUE

(* if section.strip() *)
SectionKept(section) == SStrip(section) # EmptyStr

RECURSIVE SectionChunks(_, _, _)
SectionChunks(sections, i, document_id) ==
    IF i > Len(sections) THEN <<>>
    ELSE (IF SectionKept(sections[i])
          THEN <<DocumentChunk(<<"section_", IntPiece(i - 1)>>, document_id,
                               sections[i], "text", i - 1, Len(sections),
                               [section |-> i - 1])>>
          ELSE <<>>)
         \o SectionChunks(sections, i + 1, document_id)

CreateChunksFromContent(content, document_id) ==
    SectionChunks(SplitSections(content), 1, document_id)

WordDocTypes ==
    ("manual" :> {<<"m", "a", "n", "u", "a", "l">>,
                 <<"i", "n", "s", "t", "r", "u", "\\u00e7", "\\u00f5", "e",
                   "s">>,
                 <<"i", "n", "s", "t", "r", "u", "c", "t", "i", "o", "n",
                   "s">>}) @@
    ("relat\\u00f3rio" :> {<<"r", "e", "l", "a", "t", "\\u00f3", "r", "i", "o">>,
                    <<"r", "e", "p", "o", "r", "t">>,
                    <<"a", "n", "\\u00e1", "l", "i", "s", "e">>}) @@
    ("procedimento" :> {<<"p", "r", "o", "c", "e", "d", "i", "m", "e", "n",
                         "t", "o">>,
                       <<"p", "r", "o", "c", "e", "d", "u", "r", "e">>,
                       <<"p", "r", "o", "c", "e", "s", "s", "o">>}) @@
    ("pol\\u00edtica" :> {<<"p", "o", "l", "\\u00ed", "t", "i", "c", "a">>,
                   <<"p", "o", "l", "i", "c", "y">>,
                   <<"n", "o", "r", "m", "a">>})

ExtractWordTags(content, hashseed) ==
    ListOfSet({"word", "documento"} \cup
              {t \in DOMAIN WordDocTypes :
                  AnyContains(SLower(content), WordDocTypes[t])},
              hashseed)

NonBlank(text) == SStrip(text) # EmptyStr

StripCells(row) == [k \in 1..Len(row) |-> SStrip(row[k])]

(* the rows of one table that have a non-blank cell, cells joined *)
RECURSIVE TableData(_)
TableData(rows) ==
    IF rows = <<>> THEN <<>>
    ELSE (IF \E k \in 1..Len(Head(rows)) : StripCells(Head(rows))[k] # EmptyStr
          THEN <<SJoin(StrOf(<<" ", "|", " ">>), StripCells(Head(rows)))>>
          ELSE <<>>)
         \o TableData(Tail(rows))

RECURSIVE TablesText(_)
TablesText(tables) ==
    IF tables = <<>> THEN <<>>
    ELSE (IF TableData(Head(tables)) # <<>>
          THEN <<SJoin(SRep(NL, 1), TableData(Head(tables)))>> ELSE <<>>)
         \o TablesText(Tail(tables))

WordContent(view) ==
    LET paragraphs == SelectSeq(view.paragraphs, NonBlank)
        tables_text == TablesText(view.tables)
    IN  IF tables_text # <<>>
        THEN SJoinAll(<<SJoin(ParaSep, paragraphs),
                        StrOf(<<NL, NL, "-", "-", "-", " ", "T", "a", "b", "e",
                                "l", "a", "s", " ", "-", "-", "-", NL, NL>>),
                        SJoin(ParaSep, tables_text)>>)
        ELSE SJoin(ParaSep, paragraphs)

(* WordProcessor.process() *)
WordProcess(file, metadata, hashseed) ==
    LET view == WordView(file.data)
        content == WordContent(view)
    IN  [raised |-> "none",
         entries |->
            IF view.opens # "ok" THEN <<>>
            ELSE <<KnowledgeBaseEntry(
                      metadata.checksum,
                      SCat(StrOf(<<"[", "W", "o", "r", "d", "]", " ">>),
                           NameStr(file.name)),
                      content, SPrefix(content, 1000), "Document",
                      ExtractWordTags(content, hashseed), 90, file.name,
                      "word",
                      [paragraphs |-> Len(SelectSeq(view.paragraphs, NonBlank)),
                       tables |-> Len(view.tables),
                       has_images |-> view.inline_shapes > 0],
                      CreateChunksFromContent(content, metadata.checksum))>>,
         metadata |-> metadata,
         open_handles |-> {}]

(* ---------------------------------------------------------------------- *)
(* ExcelProcessor                                                          *)
(* ---------------------------------------------------------------------- *)
(* what pandas.read_excel answers for the bytes: per sheet the header, the *)
(* index labels and the cells, a cell being a string or NaN                *)
Cell(text) == [nan |-> FALSE, v |-> text]

NaN == [nan |-> TRUE, v |-> EmptyStr]

ExcelView(data) ==
    CASE data = "xlsx" ->
            [reads |-> "ok",
             sheets |-> <<[name |-> "Empty", columns |-> <<"id">>,
                           index |-> <<0>>, cells |-> <<<<NaN>>>>],
                          [name |-> "Jobs", columns |-> <<"name", "note">>,
                           index |-> <<0, 1>>,
                           cells |-> <<<<Cell(StrOf(<<"J", "1">>)), NaN>>,
                                       <<NaN, NaN>>>>]>>]
      [] data = "xlsx0" ->
            [reads |-> "ok",
             sheets |-> <<[name |-> "Empty", columns |-> <<"id">>,
                           index |-> <<0>>, cells |-> <<<<NaN>>>>]>>]
      [] data = "xlsx3" ->
            [reads |-> "ok",
             sheets |-> <<[name |-> "Jobs", columns |-> <<"name", "note">>,
                           index |-> <<0, 1, 2>>,
                           cells |-> <<<<Cell(StrOf(<<"J", "1">>)), NaN>>,
                                       <<NaN, Cell(StrOf(<<" ">>))>>,
                                       <<NaN, NaN>>>>],
                          [name |-> "Empty", columns |-> <<"id">>,
                           index |-> <<>>, cells |-> <<>>],
                          [name |-> "Steps", columns |-> <<"id">>,
                           index |-> <<0>>,
                           cells |-> <<<<Cell(StrOf(<<"7">>))>>>>]>>]
      [] OTHER -> [reads |-> "BadZipFile", sheets |-> <<>>]

KeepAt(q, keep) ==
    LET F[k \in 0..Len(q)] ==
            IF k = 0 THEN <<>>
            ELSE IF k \in keep THEN Append(F[k - 1], q[k]) ELSE F[k - 1]
    IN  F[Len(q)]

(* df.dropna(how='all').dropna(axis=1, how='all') *)
DropNa(sheet) ==
    LET rows == {r \in 1..Len(sheet.cells) :
                    \E c \in 1..Len(sheet.columns) : ~sheet.cells[r][c].nan}
        cols == {c \in 1..Len(sheet.columns) :
                    \E r \in rows : ~sheet.cells[r][c].nan}
    IN  [name |-> sheet.name,
         columns |-> KeepAt(sheet.columns, cols),
         index |-> KeepAt(sheet.index, rows),
         cells |-> [r \in 1..Len(KeepAt(sheet.cells, rows)) |->
                       KeepAt(KeepAt(sheet.cells, rows)[r], cols)]]

DfEmpty(df) == Len(df.index) = 0 \/ Len(df.columns) = 0

(* _create_entry_from_row: pd is a local name of process(), so the first   *)
(* pd.notna(value) raises NameError; with no column the function returns   *)
(* None                                                                    *)
CreateEntryFromRow(row, columns, sheet_name, row_index) ==
    IF columns # <<>>
    THEN [raised |-> "NameError", entry |-> <<>>]
    ELSE [raised |-> "none", entry |-> <<>>]

RECURSIVE RowsLoop(_, _, _)
RowsLoop(df, r, acc) ==
    IF r > Len(df.index) THEN [raised |-> "none", entries |-> acc]
    ELSE LET e == CreateEntryFromRow(df.cells[r], df.columns, df.name,
                                     df.index[r])
         IN  IF e.raised # "none"
             THEN [raised |-> e.raised, entries |-> acc]
             ELSE RowsLoop(df, r + 1, acc \o e.entry)

ColumnChars(col) ==
    CASE col = "id" -> <<"i", "d">>
      [] col = "name" -> <<"n", "a", "m", "e">>
      [] col = "note" -> <<"n", "o", "t", "e">>
      [] col = "Empty" -> <<"E", "m", "p", "t", "y">>
      [] col = "Jobs" -> <<"J", "o", "b", "s">>
      [] col = "Steps" -> <<"S", "t", "e", "p", "s">>
      [] OTHER -> <<col>>

ColumnStrs(columns) == [k \in 1..Len(columns) |-> StrOf(ColumnChars(columns[k]))]

(* df.head(10).to_string(): pandas' rendering, one line per row *)
DfToString(df) ==
    SJoin(SRep(NL, 1),
          [r \in 1..(IF Len(df.index) < 10 THEN Len(df.index) ELSE 10) |->
              SJoin(StrOf(<<" ">>),
                    <<IntStr(df.index[r])>> \o
                    [c \in 1..Len(df.columns) |->
                        IF df.cells[r][c].nan THEN StrOf(<<"N", "a", "N">>)
                        ELSE df.cells[r][c].v])])

SheetSummaryParts(df) ==
    <<SCat(StrOf(<<"S", "h", "e", "e", "t", ":", " ">>),
           StrOf(ColumnChars(df.name))),
      SCat(StrOf(<<"L", "i", "n", "h", "a", "s", ":", " ">>),
           IntStr(Len(df.index))),
      SCat(StrOf(<<"C", "o", "l", "u", "n", "a", "s", ":", " ">>),
           IntStr(Len(df.columns))),
      SCat(StrOf(<<"C", "o", "l", "u", "n", "a", "s", ":", " ">>),
           SJoin(StrOf(<<",", " ">>),
                 ColumnStrs(SubSeq(df.columns, 1,
                     IF Len(df.columns) < 10 THEN Len(df.columns) ELSE 10))))>>

CreateEntryFromSheet(df, metadata, file_name) ==
    IF DfEmpty(df) THEN <<>>
    ELSE <<KnowledgeBaseEntry(
              metadata.checksum \o <<"_", df.name, "_sheet">>,
              SJoinAll(<<StrOf(<<"[", "E", "x", "c", "e", "l", " ", "S", "h",
                                 "e", "e", "t", "]", " ">>),
                         StrOf(ColumnChars(df.name)),
                         StrOf(<<" ", "-", " ">>), NameStr(file_name)>>),
              SJoinAll(<<SJoin(SRep(NL, 1), SheetSummaryParts(df)),
                         StrOf(<<NL, NL, "A", "m", "o", "s", "t", "r", "a",
                                 " ", "d", "e", " ", "d", "a", "d", "o", "s",
                                 ":", NL>>),
                         DfToString(df)>>),
              SJoin(StrOf(<<" ", "|", " ">>), SheetSummaryParts(df)),
              "Spreadsheet", <<df.name, "excel", "tabela">>, 90, file_name,
              "excel_sheet",
              [total_rows |-> Len(df.index), total_cols |-> Len(df.columns)],
              <<>>)>>

(* the for loop over the sheets, inside the try *)
RECURSIVE SheetsLoop(_, _, _, _, _)
SheetsLoop(sheets, k, entries, metadata, file_name) ==
    IF k > Len(sheets) THEN entries
    ELSE LET df == DropNa(sheets[k])
             rows == RowsLoop(df, 1, <<>>)
         IN  IF DfEmpty(df)
             THEN SheetsLoop(sheets, k + 1, entries, metadata, file_name)
             ELSE IF rows.raised # "none"
             THEN entries \o rows.entries
             ELSE SheetsLoop(sheets, k + 1,
                      entries \o rows.entries
                          \o CreateEntryFromSheet(df, metadata, file_name),
                      metadata, file_name)

(* ExcelProcessor.process(): import pandas is outside the try *)
ExcelProcess(file, metadata, pandas_ok) ==
    LET view == ExcelView(file.data)
    IN  IF ~pandas_ok
        THEN [raised |-> "ImportError", entries |-> <<>>,
              metadata |-> metadata, open_handles |-> {}]
        ELSE [raised |-> "none",
              entries |-> IF view.reads # "ok" THEN <<>>
                          ELSE SheetsLoop(view.sheets, 1, <<>>, metadata,
                                          file.name),
              metadata |-> metadata, open_handles |-> {}]

(* ---------------------------------------------------------------------- *)
(* UniversalDocumentProcessor                                              *)
(* ---------------------------------------------------------------------- *)
Processors ==
    [excel |-> "ExcelProcessor", pdf |-> "PDFProcessor",
     word |-> "WordProcessor", image |-> "ImageProcessor",
     text |-> "TextProcessor"]

(* a dispatch whose fallback is another extractor than TextProcessor *)
SelectProcessorWordFallback(doc_type) ==
    IF doc_type \in DOMAIN Processors THEN Processors[doc_type]
    ELSE "WordProcessor"

(* self.processors.get(doc_type), then the fallback to TextProcessor *)
SelectProcessor(doc_type) ==
    IF doc_type \in DOMAIN Processors THEN Processors[doc_type]
    ELSE "TextProcessor"

(* except Exception as e: the classes the handler of process_file catches *)
PythonExceptions ==
    {"FileNotFoundError", "PermissionError", "ImportError", "NameError",
     "UnicodeDecodeError"}

CatchesOnlyOSError(e) == e \in {"FileNotFoundError", "PermissionError"}

Catches(e) == e \in PythonExceptions

(* what the handler of process_file returns *)
TextFallbackEntries(file, hashseed) ==
    IF ExtractMetadata(file).err # "none" THEN <<>>
    ELSE TextProcess(file, ExtractMetadata(file).metadata, hashseed).entries

ExceptReturnsTextFallback(file, hashseed) == TextFallbackEntries(file, hashseed)

ExceptReturn(file, hashseed) == <<>>

ReplaceEntries(all_entries, entries) == entries

(* all_entries.extend(entries) *)
Extend(all_entries, entries) == all_entries \o entries

KeepEntries(previous) == previous

(* all_entries = [] at the start of process_directory *)
NewEntryList(previous) == <<>>

(* ---------------------------------------------------------------------- *)
(* Bound of the directory                                                  *)
(* ---------------------------------------------------------------------- *)
MaxFiles == 2

(* ---------------------------------------------------------------------- *)
(* State                                                                   *)
(* ---------------------------------------------------------------------- *)
VARIABLES
    listing,          \* what path.glob(pattern) yields, in its order
    pandas_installed, \* whether import pandas succeeds
    hashseed,         \* the string hash seed of the running interpreter
    run,              \* 1: first process_directory call, 2: the repeat
    idx,              \* position of the for loop in listing
    pc,               \* position in process_directory / process_file
    doc_type,         \* process_file: doc_type
    processor_class,  \* process_file: processor_class
    processor,        \* process_file: processor.metadata once constructed
    ran,              \* the class whose process() ran for the current file
    exc,              \* the exception the handler of process_file caught
    entries,          \* process_file: the list it returns
    all_entries,      \* process_directory: all_entries
    open_handles,     \* files and images opened and not closed
    returned,         \* per run, what each process_file call returned
    results,          \* what each process_directory call returned
    escaped,          \* the exception that left process_file, if any
    ck_content, ck_size, ck_chunks, ck_pc,  \* a direct chunker call
    dt_content, dt_type, dt_tags, dt_pc,    \* a direct sub-type detection
    fp_path, fp_type, fp_pc,                \* a direct detect(file_path) call
    rd_bytes, rd_tried, rd_encoding, rd_content, rd_pc  \* a direct text read

vars == <<listing, pandas_installed, hashseed, run, idx, pc, doc_type,
          processor_class, processor, ran, exc, entries, all_entries,
          open_handles, returned, results, escaped,
          ck_content, ck_size, ck_chunks, ck_pc,
          dt_content, dt_type, dt_tags, dt_pc,
          fp_path, fp_type, fp_pc,
          rd_bytes, rd_tried, rd_encoding, rd_content, rd_pc>>

pipeline_vars == <<listing, pandas_installed, hashseed, run, idx, pc, doc_type,
                   processor_class, processor, ran, exc, entries, all_entries,
                   open_handles, returned, results, escaped>>

chunker_vars == <<ck_content, ck_size, ck_chunks, ck_pc>>

detect_vars == <<dt_content, dt_type, dt_tags, dt_pc>>

classify_vars == <<fp_path, fp_type, fp_pc>>

read_vars == <<rd_bytes, rd_tried, rd_encoding, rd_content, rd_pc>>

(* ---------------------------------------------------------------------- *)
(* The directories                                                         *)
(* ---------------------------------------------------------------------- *)
File(name, data) == [name |-> name, kind |-> "file", data |-> data,
                     fault |-> "none"]

Catalog ==
    {File(<<"a", ".", "txt">>, "big"),
     File(<<"b", ".", "txt">>, "big"),
     File(<<"n", ".", "json">>, "json"),
     File(<<"e", ".", "TXT">>, "empty"),
     File(<<"r", ".", "pdf">>, "pdf3"),
     File(<<"q", ".", "PDF">>, "pdftab"),
     File(<<"w", ".", "docx">>, "docx"),
     File(<<"s", ".", "xlsx">>, "xlsx"),
     File(<<"i", ".", "png">>, "png"),
     File(<<"m", ".", "eml">>, "mail"),
     File(<<"z", ".", "tar", ".", "gz">>, "zip"),
     File(<<"README">>, "log"),
     [name |-> <<"g", ".", "txt">>, kind |-> "file", data |-> "json",
      fault |-> "stat"],
     [name |-> <<"k", ".", "pdf">>, kind |-> "file", data |-> "pdf3",
      fault |-> "open"],
     [name |-> <<"sub">>, kind |-> "dir", data |-> "none", fault |-> "none"]}

RECURSIVE ListingsOfLen(_)
ListingsOfLen(n) ==
    IF n = 0 THEN {<<>>}
    ELSE {Append(l, f) : l \in ListingsOfLen(n - 1), f \in Catalog}

DistinctNames(l) ==
    \A i, j \in 1..Len(l) : i # j => l[i].name # l[j].name

Listings ==
    {l \in UNION {ListingsOfLen(n) : n \in 1..MaxFiles} : DistinctNames(l)}

NoProcessor == [file_name |-> <<>>]

Init ==
    /\ listing \in Listings
    /\ pandas_installed \in BOOLEAN
    /\ hashseed = 0
    /\ run = 1
    /\ idx = 1
    /\ pc = "pd_enter"
    /\ doc_type = "none"
    /\ processor_class = "none"
    /\ processor = NoProcessor
    /\ ran = "none"
    /\ exc = "none"
    /\ entries = <<>>
    /\ all_entries = <<>>
    /\ open_handles = {}
    /\ returned = <<<<>>, <<>>>>
    /\ results = <<>>
    /\ escaped = "none"
    /\ ck_content = EmptyStr
    /\ ck_size = 0
    /\ ck_chunks = <<>>
    /\ ck_pc = "idle"
    /\ dt_content = EmptyStr
    /\ dt_type = "none"
    /\ dt_tags = <<>>
    /\ dt_pc = "idle"
    /\ fp_path = <<>>
    /\ fp_type = "none"
    /\ fp_pc = "idle"
    /\ rd_bytes = <<>>
    /\ rd_tried = <<>>
    /\ rd_encoding = "None"
    /\ rd_content = EmptyStr
    /\ rd_pc = "idle"

(* ---------------------------------------------------------------------- *)
(* process_directory                                                       *)
(* ---------------------------------------------------------------------- *)
PD_Enter ==
    /\ pc = "pd_enter"
    /\ all_entries' = NewEntryList(all_entries)
    /\ idx' = 1
    /\ pc' = "pd_loop"
    /\ UNCHANGED <<listing, pandas_installed, hashseed, run, doc_type,
                   processor_class, processor, ran, exc, entries,
                   open_handles, returned, results, escaped>>
    /\ UNCHANGED chunker_vars
    /\ UNCHANGED detect_vars
    /\ UNCHANGED classify_vars
    /\ UNCHANGED read_vars

(* for file_path in path.glob(pattern): not file_path.is_file() *)
PD_Skip ==
    /\ pc = "pd_loop"
    /\ idx <= Len(listing)
    /\ listing[idx].kind # "file"
    /\ idx' = idx + 1
    /\ UNCHANGED <<listing, pandas_installed, hashseed, run, pc, doc_type,
                   processor_class, processor, ran, exc, entries, all_entries,
                   open_handles, returned, results, escaped>>
    /\ UNCHANGED chunker_vars
    /\ UNCHANGED detect_vars
    /\ UNCHANGED classify_vars
    /\ UNCHANGED read_vars

(* entries = self.process_file(str(file_path)) *)
PD_Call ==
    /\ pc = "pd_loop"
    /\ idx <= Len(listing)
    /\ listing[idx].kind = "file"
    /\ pc' = "pf_start"
    /\ UNCHANGED <<listing, pandas_installed, hashseed, run, idx, doc_type,
                   processor_class, processor, ran, exc, entries, all_entries,
                   open_handles, returned, results, escaped>>
    /\ UNCHANGED chunker_vars
    /\ UNCHANGED detect_vars
    /\ UNCHANGED classify_vars
    /\ UNCHANGED read_vars

(* return all_entries; the caller then repeats the call once, in an        *)
(* interpreter whose hash seed may differ                                  *)
PD_Return ==
    /\ pc = "pd_loop"
    /\ idx > Len(listing)
    /\ results' = Append(results, all_entries)
    /\ IF run = 1
       THEN /\ run' = 2
            /\ pc' = "pd_enter"
            /\ hashseed' \in {0, 1}
       ELSE /\ run' = run
            /\ pc' = "done"
            /\ hashseed' = hashseed
    /\ UNCHANGED <<listing, pandas_installed, idx, doc_type, processor_class,
                   processor, ran, exc, entries, all_entries, open_handles,
                   returned, escaped>>
    /\ UNCHANGED chunker_vars
    /\ UNCHANGED detect_vars
    /\ UNCHANGED classify_vars
    /\ UNCHANGED read_vars

(* ---------------------------------------------------------------------- *)
(* process_file                                                            *)
(* ---------------------------------------------------------------------- *)
PF_Dispatch ==
    /\ pc = "pf_start"
    /\ doc_type' = Detect(listing[idx].name)
    /\ processor_class' = SelectProcessor(Detect(listing[idx].name))
    /\ pc' = "pf_construct"
    /\ UNCHANGED <<listing, pandas_installed, hashseed, run, idx, processor,
                   ran, exc, entries, all_entries, open_handles, returned,
                   results, escaped>>
    /\ UNCHANGED chunker_vars
    /\ UNCHANGED detect_vars
    /\ UNCHANGED classify_vars
    /\ UNCHANGED read_vars

(* the except clause of process_file, for an exception e raised in the try *)
PF_Handle(e) ==
    IF Catches(e)
    THEN /\ exc' = e
         /\ entries' = ExceptReturn(listing[idx], hashseed)
         /\ pc' = "pf_return"
         /\ escaped' = escaped
    ELSE /\ exc' = exc
         /\ entries' = entries
         /\ pc' = "crashed"
         /\ escaped' = e

(* processor = processor_class(file_path): BaseProcessor.__init__ *)
PF_Construct ==
    /\ pc = "pf_construct"
    /\ LET m == ExtractMetadata(listing[idx]) IN
       IF m.err # "none"
       THEN /\ PF_Handle(m.err)
            /\ processor' = processor
       ELSE /\ processor' = m.metadata
            /\ pc' = "pf_process"
            /\ UNCHANGED <<exc, entries, escaped>>
    /\ UNCHANGED <<listing, pandas_installed, hashseed, run, idx, doc_type,
                   processor_class, ran, all_entries, open_handles, returned,
                   results>>
    /\ UNCHANGED chunker_vars
    /\ UNCHANGED detect_vars
    /\ UNCHANGED classify_vars
    /\ UNCHANGED read_vars

(* entries = processor.process(), r being what process() did *)
PF_Process(r) ==
    /\ ran' = processor_class
    /\ processor' = r.metadata
    /\ open_handles' = open_handles \cup r.open_handles
    /\ IF r.raised # "none"
       THEN PF_Handle(r.raised)
       ELSE /\ entries' = r.entries
            /\ pc' = "pf_return"
            /\ UNCHANGED <<exc, escaped>>
    /\ UNCHANGED <<listing, pandas_installed, hashseed, run, idx, doc_type,
                   processor_class, all_entries, returned, results>>
    /\ UNCHANGED chunker_vars
    /\ UNCHANGED detect_vars
    /\ UNCHANGED classify_vars
    /\ UNCHANGED read_vars

RunExcelProcessor ==
    /\ pc = "pf_process"
    /\ processor_class = "ExcelProcessor"
    /\ PF_Process(ExcelProcess(listing[idx], processor, pandas_installed))

RunPDFProcessor ==
    /\ pc = "pf_process"
    /\ processor_class = "PDFProcessor"
    /\ PF_Process(PDFProcess(listing[idx], processor, hashseed))

RunWordProcessor ==
    /\ pc = "pf_process"
    /\ processor_class = "WordProcessor"
    /\ PF_Process(WordProcess(listing[idx], processor, hashseed))

RunImageProcessor ==
    /\ pc = "pf_process"
    /\ processor_class = "ImageProcessor"
    /\ PF_Process(ImageProcess(listing[idx], processor, hashseed))

RunTextProcessor ==
    /\ pc = "pf_process"
    /\ processor_class = "TextProcessor"
    /\ PF_Process(TextProcess(listing[idx], processor, hashseed))

(* process_file returns; process_directory extends all_entries and takes   *)
(* the next path                                                           *)
PF_Return ==
    /\ pc = "pf_return"
    /\ all_entries' = Extend(all_entries, entries)
    /\ returned' = [returned EXCEPT ![run] =
                       Append(@, [name |-> listing[idx].name,
                                  entries |-> entries, exc |-> exc])]
    /\ idx' = idx + 1
    /\ pc' = "pd_loop"
    /\ doc_type' = "none"
    /\ processor_class' = "none"
    /\ processor' = NoProcessor
    /\ ran' = "none"
    /\ exc' = "none"
    /\ entries' = <<>>
    /\ UNCHANGED <<listing, pandas_installed, hashseed, run, open_handles,
                   results, escaped>>
    /\ UNCHANGED chunker_vars
    /\ UNCHANGED detect_vars
    /\ UNCHANGED classify_vars
    /\ UNCHANGED read_vars

Next ==
    \/ PD_Enter
    \/ PD_Skip
    \/ PD_Call
    \/ PD_Return
    \/ PF_Dispatch
    \/ PF_Construct
    \/ RunExcelProcessor
    \/ RunPDFProcessor
    \/ RunWordProcessor
    \/ RunImageProcessor
    \/ RunTextProcessor
    \/ PF_Return

Spec == Init /\ [][Next]_vars

(* ---------------------------------------------------------------------- *)
(* The pipeline over a directory of one file, for more kinds of file       *)
(* ---------------------------------------------------------------------- *)
MoreFiles ==
    {File(<<"t", ".", "txt">>, "t9999"),
     File(<<"u", ".", "txt">>, "t10000"),
     File(<<"v", ".", "log">>, "t10001"),
     File(<<"b", ".", "tiff">>, "blank"),
     File(<<"x", ".", "JPG">>, "noocr"),
     File(<<"c", ".", "gif">>, "json"),
     File(<<"y", ".", "xlsx">>, "xlsx3"),
     File(<<"o", ".", "xls">>, "xlsx0"),
     File(<<"d", ".", "xlsx">>, "json"),
     File(<<"f", ".", "pdf">>, "pdf3tab"),
     File(<<"p", ".", "pdf">>, "pdfscan"),
     File(<<"h", ".", "pdf">>, "json"),
     File(<<"j", ".", "JPG">>, "scan600"),
     File(<<"l", ".", "pdf">>, "pdflong"),
     File(<<"e", ".", "docx">>, "docx0"),
     File(<<"g", ".", "docx">>, "docxbr"),
     File(<<"h", ".", "docx">>, "docx2"),
     File(<<"n", ".", "pdf">>, "pdflate")}

Inputs == Catalog \cup MoreFiles

FileInit ==
    /\ listing \in {<<f>> : f \in Inputs}
    /\ pandas_installed \in BOOLEAN
    /\ hashseed = 0
    /\ run = 1
    /\ idx = 1
    /\ pc = "pd_enter"
    /\ doc_type = "none"
    /\ processor_class = "none"
    /\ processor = NoProcessor
    /\ ran = "none"
    /\ exc = "none"
    /\ entries = <<>>
    /\ all_entries = <<>>
    /\ open_handles = {}
    /\ returned = <<<<>>, <<>>>>
    /\ results = <<>>
    /\ escaped = "none"
    /\ ck_content = EmptyStr
    /\ ck_size = 0
    /\ ck_chunks = <<>>
    /\ ck_pc = "idle"
    /\ dt_content = EmptyStr
    /\ dt_type = "none"
    /\ dt_tags = <<>>
    /\ dt_pc = "idle"
    /\ fp_path = <<>>
    /\ fp_type = "none"
    /\ fp_pc = "idle"
    /\ rd_bytes = <<>>
    /\ rd_tried = <<>>
    /\ rd_encoding = "None"
    /\ rd_content = EmptyStr
    /\ rd_pc = "idle"

SpecFile == FileInit /\ [][Next]_vars

(* ---------------------------------------------------------------------- *)
(* The chunker applied to bounded inputs                                   *)
(* ---------------------------------------------------------------------- *)
Chars == {"a", NL}

RECURSIVE StrsOfRuns(_)
StrsOfRuns(k) ==
    IF k = 0 THEN {<<>>}
    ELSE LET shorter == StrsOfRuns(k - 1) IN
         shorter \cup
         {Append(s, [c |-> c, n |-> n]) :
            s \in {t \in shorter : Len(t) = k - 1},
            c \in Chars, n \in 1..MaxRunLen}

IsCanonical(s) == \A i \in 1..(Len(s) - 1) : s[i].c # s[i + 1].c

ChunkerInputs == {s \in StrsOfRuns(MaxRuns) : IsCanonical(s)}

ChunkInit ==
    /\ ck_content \in ChunkerInputs
    /\ ck_size \in 0..MaxChunkSize
    /\ ck_chunks = <<>>
    /\ ck_pc = "call"
    /\ dt_content = EmptyStr
    /\ dt_type = "none"
    /\ dt_tags = <<>>
    /\ dt_pc = "idle"
    /\ fp_path = <<>>
    /\ fp_type = "none"
    /\ fp_pc = "idle"
    /\ rd_bytes = <<>>
    /\ rd_tried = <<>>
    /\ rd_encoding = "None"
    /\ rd_content = EmptyStr
    /\ rd_pc = "idle"
    /\ listing = <<>>
    /\ pandas_installed = TRUE
    /\ hashseed = 0
    /\ run = 1
    /\ idx = 1
    /\ pc = "idle"
    /\ doc_type = "none"
    /\ processor_class = "none"
    /\ processor = NoProcessor
    /\ ran = "none"
    /\ exc = "none"
    /\ entries = <<>>
    /\ all_entries = <<>>
    /\ open_handles = {}
    /\ returned = <<<<>>, <<>>>>
    /\ results = <<>>
    /\ escaped = "none"

ChunkCall ==
    /\ ck_pc = "call"
    /\ ck_chunks' = CreateTextChunks(ck_content, ck_size, "doc")
    /\ ck_pc' = "returned"
    /\ UNCHANGED <<ck_content, ck_size>>
    /\ UNCHANGED pipeline_vars
    /\ UNCHANGED detect_vars
    /\ UNCHANGED classify_vars
    /\ UNCHANGED read_vars

ChunkNext == ChunkCall

SpecChunk == ChunkInit /\ [][ChunkNext]_vars

(* ---------------------------------------------------------------------- *)
(* The sub-type detection applied to bounded contents                      *)
(* ---------------------------------------------------------------------- *)
DetectLeads ==
    {<<>>, <<" ">>, <<"{">>, <<"[">>, <<"<">>, <<NL, "<", "H", "T", "M", "L", ">">>,
     <<"-", "-", "-">>}

DetectPads == {0, 100, 1000}

DetectMarks ==
    <<<<":", " ">>, <<"#", " ">>, <<"d", "e", "f", " ">>,
      <<"E", "R", "R", "O", "R">>, <<"C", "I", "C", "S">>>>

(* lead, then pad filler characters, then the marks chosen, in their order *)
DetectContent(lead, pad, marks) ==
    SJoinAll(<<StrOf(lead), SRep("x", pad)>>
             \o [i \in 1..Len(DetectMarks) |->
                    IF i \in marks THEN StrOf(DetectMarks[i]) ELSE EmptyStr])

DetectInputs ==
    {DetectContent(lead, pad, marks) :
        lead \in DetectLeads, pad \in DetectPads,
        marks \in SUBSET (1..Len(DetectMarks))}
    \cup {StrOf(d) : d \in JsonDocuments}

DetectInit ==
    /\ dt_content \in DetectInputs
    /\ dt_type = "none"
    /\ dt_tags = <<>>
    /\ dt_pc = "call"
    /\ fp_path = <<>>
    /\ fp_type = "none"
    /\ fp_pc = "idle"
    /\ rd_bytes = <<>>
    /\ rd_tried = <<>>
    /\ rd_encoding = "None"
    /\ rd_content = EmptyStr
    /\ rd_pc = "idle"
    /\ ck_content = EmptyStr
    /\ ck_size = 0
    /\ ck_chunks = <<>>
    /\ ck_pc = "idle"
    /\ listing = <<>>
    /\ pandas_installed = TRUE
    /\ hashseed \in {0, 1}
    /\ run = 1
    /\ idx = 1
    /\ pc = "idle"
    /\ doc_type = "none"
    /\ processor_class = "none"
    /\ processor = NoProcessor
    /\ ran = "none"
    /\ exc = "none"
    /\ entries = <<>>
    /\ all_entries = <<>>
    /\ open_handles = {}
    /\ returned = <<<<>>, <<>>>>
    /\ results = <<>>
    /\ escaped = "none"

(* content_type = self._detect_content_type(content), then                 *)
(* self._extract_text_tags(content, content_type)                          *)
DetectCall ==
    /\ dt_pc = "call"
    /\ dt_type' = DetectContentType(dt_content)
    /\ dt_tags' = ExtractTextTags(dt_content, DetectContentType(dt_content),
                                  hashseed)
    /\ dt_pc' = "returned"
    /\ UNCHANGED dt_content
    /\ UNCHANGED pipeline_vars
    /\ UNCHANGED chunker_vars
    /\ UNCHANGED classify_vars
    /\ UNCHANGED read_vars

DetectNext == DetectCall

SpecDetect == DetectInit /\ [][DetectNext]_vars

(* ---------------------------------------------------------------------- *)
(* A direct call of DocumentTypeDetector.detect on a bounded path          *)
(* ---------------------------------------------------------------------- *)
MaxPathLen == 4

PathPieces == {".", "/", "a", "txt", "Txt", "PDF", "gz", "xyz"}

RECURSIVE PathsOfLen(_)
PathsOfLen(n) ==
    IF n = 0 THEN {<<>>}
    ELSE {Append(q, t) : q \in PathsOfLen(n - 1), t \in PathPieces}

(* two pieces that are not a dot or a slash are never adjacent: together   *)
(* they would be one piece                                                 *)
IsPiecewise(path) ==
    \A i \in 1..(Len(path) - 1) :
        path[i] \in {".", "/"} \/ path[i + 1] \in {".", "/"}

ClassifyInputs ==
    {q \in UNION {PathsOfLen(n) : n \in 0..MaxPathLen} : IsPiecewise(q)}

ClassifyInit ==
    /\ fp_path \in ClassifyInputs
    /\ fp_type = "none"
    /\ fp_pc = "call"
    /\ rd_bytes = <<>>
    /\ rd_tried = <<>>
    /\ rd_encoding = "None"
    /\ rd_content = EmptyStr
    /\ rd_pc = "idle"
    /\ dt_content = EmptyStr
    /\ dt_type = "none"
    /\ dt_tags = <<>>
    /\ dt_pc = "idle"
    /\ ck_content = EmptyStr
    /\ ck_size = 0
    /\ ck_chunks = <<>>
    /\ ck_pc = "idle"
    /\ listing = <<>>
    /\ pandas_installed = TRUE
    /\ hashseed = 0
    /\ run = 1
    /\ idx = 1
    /\ pc = "idle"
    /\ doc_type = "none"
    /\ processor_class = "none"
    /\ processor = NoProcessor
    /\ ran = "none"
    /\ exc = "none"
    /\ entries = <<>>
    /\ all_entries = <<>>
    /\ open_handles = {}
    /\ returned = <<<<>>, <<>>>>
    /\ results = <<>>
    /\ escaped = "none"

(* doc_type = DocumentTypeDetector.detect(file_path) *)
ClassifyCall ==
    /\ fp_pc = "call"
    /\ fp_type' = Detect(fp_path)
    /\ fp_pc' = "returned"
    /\ UNCHANGED fp_path
    /\ UNCHANGED pipeline_vars
    /\ UNCHANGED chunker_vars
    /\ UNCHANGED detect_vars
    /\ UNCHANGED read_vars

ClassifyNext == ClassifyCall

SpecClassify == ClassifyInit /\ [][ClassifyNext]_vars

(* ---------------------------------------------------------------------- *)
(* The read of TextProcessor.process on a file holding a bounded byte      *)
(* string                                                                  *)
(* ---------------------------------------------------------------------- *)
MaxBytes == 3

(* \n, \r, A, a continuation byte that cp1252 leaves undefined, a          *)
(* continuation byte, a two-byte lead, a byte that is never UTF-8          *)
ByteAlphabet == {10, 13, 65, 129, 169, 195, 255}

RECURSIVE BytesOfLen(_)
BytesOfLen(n) ==
    IF n = 0 THEN {<<>>}
    ELSE {Append(q, b) : q \in BytesOfLen(n - 1), b \in ByteAlphabet}

ReadInputs == UNION {BytesOfLen(n) : n \in 0..MaxBytes}

ReadInit ==
    /\ rd_bytes \in ReadInputs
    /\ rd_tried = <<>>
    /\ rd_encoding = "None"
    /\ rd_content = EmptyStr
    /\ rd_pc = "call"
    /\ fp_path = <<>>
    /\ fp_type = "none"
    /\ fp_pc = "idle"
    /\ dt_content = EmptyStr
    /\ dt_type = "none"
    /\ dt_tags = <<>>
    /\ dt_pc = "idle"
    /\ ck_content = EmptyStr
    /\ ck_size = 0
    /\ ck_chunks = <<>>
    /\ ck_pc = "idle"
    /\ listing = <<>>
    /\ pandas_installed = TRUE
    /\ hashseed = 0
    /\ run = 1
    /\ idx = 1
    /\ pc = "idle"
    /\ doc_type = "none"
    /\ processor_class = "none"
    /\ processor = NoProcessor
    /\ ran = "none"
    /\ exc = "none"
    /\ entries = <<>>
    /\ all_entries = <<>>
    /\ open_handles = {}
    /\ returned = <<<<>>, <<>>>>
    /\ results = <<>>
    /\ escaped = "none"

(* the for loop of lines 744-751 and the if of lines 753-756 *)
ReadCall ==
    /\ rd_pc = "call"
    /\ rd_tried' = ReadBytes(rd_bytes, rd_encoding).tried
    /\ rd_encoding' = ReadBytes(rd_bytes, rd_encoding).encoding
    /\ rd_content' = ReadBytes(rd_bytes, rd_encoding).content
    /\ rd_pc' = "returned"
    /\ UNCHANGED rd_bytes
    /\ UNCHANGED pipeline_vars
    /\ UNCHANGED chunker_vars
    /\ UNCHANGED detect_vars
    /\ UNCHANGED classify_vars

ReadNext == ReadCall

SpecRead == ReadInit /\ [][ReadNext]_vars

(* ---------------------------------------------------------------------- *)
(* Properties of process_file and process_directory                        *)
(* ---------------------------------------------------------------------- *)
InProcessFile == pc \in {"pf_construct", "pf_process", "pf_return"}

C2_Dispatch ==
    InProcessFile =>
        LET category == Detect(listing[idx].name) IN
        /\ category \in {"powerpoint", "email", "html", "code", "archive",
                         "unknown"}
              => processor_class = "TextProcessor"
        /\ category = "excel" => processor_class = "ExcelProcessor"
        /\ category = "pdf" => processor_class = "PDFProcessor"
        /\ category = "word" => processor_class = "WordProcessor"
        /\ category = "image" => processor_class = "ImageProcessor"
        /\ category = "text" => processor_class = "TextProcessor"
        /\ ran \in {"none", processor_class}
        /\ (pc = "pf_return" /\ exc = "none") =>
              /\ ran = processor_class
              /\ processor_class = "TextProcessor" =>
                    /\ Len(entries) = 1
                    /\ entries[1].document_type = "text"
                    /\ entries[1].content = ReadContent(listing[idx].data)

C2_Witness ==
    /\ pc = "pf_return"
    /\ Detect(listing[idx].name) \in {"email", "archive", "unknown"}
    /\ ran = "TextProcessor"
    /\ entries # <<>>

(* C3: process_file never propagates an error to its caller: on every path *)
(* it returns a list of entries, at worst the empty list.                  *)
C3_NeverPropagates ==
    /\ escaped = "none"
    /\ pc # "crashed"
    /\ (pc = "pf_return" /\ exc # "none") => Len(entries) = 0

C3_Witness ==
    /\ pc = "pf_return"
    /\ exc \in {"FileNotFoundError", "PermissionError"}
    /\ \E r \in 1..2 : \E k \in 1..Len(returned[r]) :
          returned[r][k].exc = "ImportError"

RECURSIVE Flatten(_)
Flatten(lists) ==
    IF lists = <<>> THEN <<>> ELSE Head(lists).entries \o Flatten(Tail(lists))

RegularFiles(l) == SelectSeq(l, LAMBDA f : f.kind = "file")

(* C4: process_directory returns the concatenation, in traversal order, of *)
(* what process_file returned for every regular file enumerated; a file    *)
(* whose extraction fails contributes no entry and leaves the entries of   *)
(* the other files in place.                                               *)
C4_Concatenation ==
    \A r \in 1..Len(results) :
        /\ results[r] = Flatten(returned[r])
        /\ Len(returned[r]) = Len(RegularFiles(listing))
        /\ \A k \in 1..Len(returned[r]) :
              /\ returned[r][k].name = RegularFiles(listing)[k].name
              /\ returned[r][k].exc # "none" => returned[r][k].entries = <<>>

C4_Witness ==
    /\ Len(results) >= 1
    /\ Len(returned[1]) >= 2
    /\ returned[1][1].entries # <<>>
    /\ returned[1][2].exc # "none"
    /\ results[1] = returned[1][1].entries

(* C5: every file handle or image object opened during process() is closed *)
(* by the time process() returns, on the normal and on every error path.   *)
C5_NoHandleLeftOpen ==
    pc = "pf_return" => open_handles = {}

SameEntry(e1, e2) ==
    /\ e1.uuid = e2.uuid
    /\ e1.title = e2.title
    /\ e1.content = e2.content
    /\ e1.summary = e2.summary
    /\ e1.category = e2.category
    /\ e1.confidence_score = e2.confidence_score
    /\ e1.document_type = e2.document_type
    /\ e1.chunks = e2.chunks
    /\ SeqRange(e1.tags) = SeqRange(e2.tags)

(* C6: running process_directory twice on the same unmodified files gives  *)
(* the same entries: as many, with the same uuid, title, content, summary, *)
(* category, confidence, document type, chunks and set of tags.            *)
C6_Idempotent ==
    Len(results) = 2 =>
        /\ Len(results[1]) = Len(results[2])
        /\ \A k \in 1..Len(results[1]) : SameEntry(results[1][k], results[2][k])

C6_Witness ==
    /\ Len(results) = 2
    /\ Len(results[1]) >= 2
    /\ results[1] # results[2]

(* C7: no two entries of the list process_directory builds share a uuid,   *)
(* also when two files of the directory hold the same bytes.               *)
C7_UniqueUuids ==
    \A i, j \in 1..Len(all_entries) :
        i # j => all_entries[i].uuid # all_entries[j].uuid

(* ---------------------------------------------------------------------- *)
(* Properties of the chunker                                               *)
(* ---------------------------------------------------------------------- *)

(* C8: every chunk returned by _create_text_chunks has total_chunks equal  *)
(* to the number of chunks returned.                                       *)
C8_TotalChunksIsCount ==
    ck_pc = "returned" =>
        \A k \in 1..Len(ck_chunks) : ck_chunks[k].total_chunks = Len(ck_chunks)

C8_Witness ==
    /\ ck_pc = "returned"
    /\ Len(ck_chunks) >= 3

RECURSIVE ParasWithSep(_, _, _)
ParasWithSep(paras, lo, hi) ==
    IF lo > hi THEN EmptyStr
    ELSE SCat(SCat(paras[lo], ParaSep), ParasWithSep(paras, lo + 1, hi))

(* chunks k, k+1, ... hold, in this order, the paragraphs start, start+1, ... *)
(* each chunk a non-empty run of consecutive paragraphs                       *)
RECURSIVE ChunksCoverFrom(_, _, _, _)
ChunksCoverFrom(chunks, paras, k, start) ==
    IF k > Len(chunks) THEN start = Len(paras) + 1
    ELSE \E end \in start..Len(paras) :
            /\ chunks[k].content = ParasWithSep(paras, start, end)
            /\ ChunksCoverFrom(chunks, paras, k + 1, end + 1)

(* C9: the chunks carry chunk_index 0,1,...,n-1 in list order, and the     *)
(* paragraphs of the content appear in the chunks in their input order.    *)
C9_IndicesAndOrder ==
    ck_pc = "returned" =>
        /\ \A k \in 1..Len(ck_chunks) : ck_chunks[k].chunk_index = k - 1
        /\ ChunksCoverFrom(ck_chunks, SplitParagraphs(ck_content), 1, 1)

C9_Witness ==
    /\ ck_pc = "returned"
    /\ Len(ck_chunks) >= 2
    /\ Len(SplitParagraphs(ck_content)) > Len(ck_chunks)
    /\ \E i, j \in 1..Len(SplitParagraphs(ck_content)) :
          SplitParagraphs(ck_content)[i] # SplitParagraphs(ck_content)[j]

(* a chunk holds one paragraph only iff its content is that paragraph plus *)
(* the separator: a paragraph never contains the separator                 *)
PacksSeveralParagraphs(chunk, paras) ==
    \A i \in 1..Len(paras) : chunk.content # SCat(paras[i], ParaSep)

(* C10: a chunk that packs two or more paragraphs never exceeds the budget: *)
(* its content length, separators included, is at most chunk_size.          *)
C10_PackedChunkWithinBudget ==
    ck_pc = "returned" =>
        \A k \in 1..Len(ck_chunks) :
            PacksSeveralParagraphs(ck_chunks[k], SplitParagraphs(ck_content))
                => SLen(ck_chunks[k].content) <= ck_size

(* the length of the first k chunk contents together *)
ChunksLen(chunks, k) ==
    SumRange([j \in 1..k |-> SLen(chunks[j].content)], 1, k)

(* the length of the first i paragraphs, each with its separator *)
ParasLen(paras, i) ==
    SumRange([j \in 1..i |-> SLen(paras[j]) + SLen(ParaSep)], 1, i)

(* paragraph i is the whole content of a chunk, which starts where the     *)
(* paragraph starts                                                        *)
InOwnChunk(chunks, paras, i) ==
    \E k \in 1..Len(chunks) :
        /\ chunks[k].content = SCat(paras[i], ParaSep)
        /\ ChunksLen(chunks, k - 1) = ParasLen(paras, i - 1)

(* C11: a paragraph longer than chunk_size is never split and never shares *)
(* a chunk: it is the only paragraph of its chunk, wherever it occurs.     *)
C11_OversizeParagraphAlone ==
    ck_pc = "returned" =>
        LET paras == SplitParagraphs(ck_content) IN
        \A i \in 1..Len(paras) :
            SLen(paras[i]) > ck_size => InOwnChunk(ck_chunks, paras, i)

C11_Witness ==
    /\ ck_pc = "returned"
    /\ ck_size >= 2
    /\ LET paras == SplitParagraphs(ck_content) IN
       /\ Len(paras) >= 3
       /\ \E i \in 2..(Len(paras) - 1) :
             /\ SLen(paras[i]) > ck_size
             /\ InOwnChunk(ck_chunks, paras, i)
       /\ Len(ck_chunks) >= 3

(* "".join(chunk.content for chunk in chunks) *)
ChunksText(chunks) == SJoinAll([k \in 1..Len(chunks) |-> chunks[k].content])

(* C12: the chunker loses no content: the chunk contents, concatenated in  *)
(* index order, are the original content followed by one paragraph         *)
(* separator, so their lengths sum to at least the length of the content.  *)
C12_ContentConserved ==
    ck_pc = "returned" =>
        /\ ChunksText(ck_chunks) = SCat(ck_content, ParaSep)
        /\ ChunksLen(ck_chunks, Len(ck_chunks)) >= SLen(ck_content)

C12_Witness ==
    /\ ck_pc = "returned"
    /\ Len(ck_chunks) >= 2
    /\ Len(SplitParagraphs(ck_content)) > Len(ck_chunks)
    /\ ChunksLen(ck_chunks, Len(ck_chunks)) = SLen(ck_content) + 2

(* ---------------------------------------------------------------------- *)
(* Properties of the extractors                                            *)
(* ---------------------------------------------------------------------- *)
TextReturned ==
    /\ pc = "pf_return"
    /\ ran = "TextProcessor"
    /\ exc = "none"

(* C13: the entry of the plain-text extractor has a non-empty chunk list   *)
(* if and only if the decoded content is longer than 10,000 characters.    *)
C13_ChunkedIffLonger ==
    TextReturned =>
        /\ Len(entries) = 1
        /\ entries[1].content = ReadContent(listing[idx].data)
        /\ (entries[1].chunks # <<>>) <=> (SLen(entries[1].content) > 10000)

C13_Witness ==
    /\ TextReturned
    /\ SLen(entries[1].content) = 10000
    /\ entries[1].chunks = <<>>

ZeroByteTextFile(f) ==
    /\ f.kind = "file"
    /\ f.fault = "none"
    /\ f.data = "empty"
    /\ Detect(f.name) = "text"

(* C14: processing a zero-byte text file ends without an unhandled failure *)
(* and yields no entry, or one entry of empty content whose metadata count *)
(* of characters is 0.                                                     *)
C14_ZeroByteTextFile ==
    /\ (pc = "crashed" /\ idx <= Len(listing)) => ~ZeroByteTextFile(listing[idx])
    /\ (pc = "pf_return" /\ ZeroByteTextFile(listing[idx])) =>
          \/ entries = <<>>
          \/ /\ Len(entries) = 1
             /\ entries[1].content = EmptyStr
             /\ entries[1].metadata.characters = 0

C14_Witness ==
    /\ TextReturned
    /\ ZeroByteTextFile(listing[idx])
    /\ Len(entries) = 1
    /\ entries[1].category = "Text"

(* ---------------------------------------------------------------------- *)
(* Properties of the sub-type detection                                    *)
(* ---------------------------------------------------------------------- *)
SubTypeTag ==
    [JSON |-> "json", HTML |-> "html", XML |-> "xml", YAML |-> "yaml",
     Markdown |-> "markdown", Code |-> "code", Log |-> "log", Text |-> "text"]

TagsHoldSubType == SubTypeTag[dt_type] \in SeqRange(dt_tags)

(* C15, as the specification states it: every content that parses as JSON, *)
(* a bare scalar included, has sub-type JSON, and the tags hold the         *)
(* lowercased sub-type.                                                     *)
C15_ParseableIsJson ==
    dt_pc = "returned" =>
        /\ JsonLoadsOk(dt_content) => dt_type = "JSON"
        /\ TagsHoldSubType

(* C15, amended: a content that parses as JSON has sub-type JSON exactly    *)
(* when, leading whitespace aside, it starts with an opening brace or       *)
(* bracket (an object or an array); a bare scalar is never JSON; the tags   *)
(* always hold the lowercased sub-type.                                     *)
C15_ObjectOrArrayIsJson ==
    dt_pc = "returned" =>
        /\ JsonLoadsOk(dt_content) =>
              (dt_type = "JSON" <=>
                  (\E k \in 1..Len(dt_content) :
                      /\ dt_content[k].c \in {"{", "["}
                      /\ \A j \in 1..(k - 1) : IsSpaceChar(dt_content[j].c)))
        /\ ~JsonLoadsOk(dt_content) => dt_type # "JSON"
        /\ TagsHoldSubType

C15_Witness ==
    /\ dt_pc = "returned"
    /\ dt_content = StrOf(<<NL, "[", "1", "]", NL>>)
    /\ dt_type = "JSON"
    /\ "json" \in SeqRange(dt_tags)

(* the rules of the classification, in their order; rule 7 is Text *)
RuleMatches(k, content) ==
    CASE k = 1 -> /\ JsonLoadsOk(content)
                  /\ \E i \in 1..Len(content) :
                        /\ content[i].c \in {"{", "["}
                        /\ \A j \in 1..(i - 1) : IsSpaceChar(content[j].c)
      [] k = 2 -> \E i \in 1..Len(content) :
                     /\ content[i].c = "<"
                     /\ \A j \in 1..(i - 1) : IsSpaceChar(content[j].c)
      [] k = 3 -> \/ SPrefix(content, 3) = SRep("-", 3)
                  \/ SContains(SPrefix(content, 100), StrOf(<<":", " ">>))
      [] k = 4 -> \E q \in MarkdownPatterns : SContains(content, StrOf(q))
      [] k = 5 -> \E q \in CodePatterns : SContains(content, StrOf(q))
      [] k = 6 -> \E q \in LogWords :
                     SContains(SLower(SPrefix(content, 1000)), StrOf(q))
      [] k = 7 -> TRUE

RuleOf ==
    [JSON |-> 1, HTML |-> 2, XML |-> 2, YAML |-> 3, Markdown |-> 4,
     Code |-> 5, Log |-> 6, Text |-> 7]

(* C16: the rules apply in the order JSON, HTML/XML, YAML, Markdown, Code,  *)
(* Log, Text and the first that matches decides: the sub-type is that of    *)
(* a matching rule, no earlier rule matches, and Text is given only when    *)
(* no rule matches.                                                         *)
C16_FirstMatchingRuleWins ==
    dt_pc = "returned" =>
        /\ RuleMatches(RuleOf[dt_type], dt_content)
        /\ \A k \in 1..(RuleOf[dt_type] - 1) : ~RuleMatches(k, dt_content)
        /\ dt_type = "HTML" =>
              SContains(SLower(dt_content), StrOf(<<"<", "h", "t", "m", "l">>))

C16_Witness ==
    /\ dt_pc = "returned"
    /\ dt_type = "XML"
    /\ \A k \in 2..6 : RuleMatches(k, dt_content)

ImageReturned ==
    /\ pc = "pf_return"
    /\ ran = "ImageProcessor"
    /\ exc = "none"
    /\ ImageView(listing[idx].data).opens
    /\ ImageView(listing[idx].data).ocr_err = "none"

OnlyWhitespace(text) == \A i \in 1..Len(text) : IsSpaceChar(text[i].c)

(* C17: for an image that opens and is recognized without error, the image *)
(* extractor returns the image descriptor alone (confidence 1.0) when the  *)
(* recognized text is empty or whitespace, and an OCR entry (confidence    *)
(* 0.7) followed by the descriptor when it is not.                         *)
C17_ImageEntries ==
    ImageReturned =>
        IF OnlyWhitespace(ImageView(listing[idx].data).ocr)
        THEN /\ Len(entries) = 1
             /\ entries[1].document_type = "image"
             /\ entries[1].confidence_score = 100
        ELSE /\ Len(entries) = 2
             /\ entries[1].document_type = "image_ocr"
             /\ entries[1].confidence_score = 70
             /\ entries[2].document_type = "image"
             /\ entries[2].confidence_score = 100

C17_Witness ==
    /\ ImageReturned
    /\ ImageView(listing[idx].data).ocr # EmptyStr
    /\ OnlyWhitespace(ImageView(listing[idx].data).ocr)
    /\ Len(entries) = 1

ExcelReturned ==
    /\ pc = "pf_return"
    /\ ran = "ExcelProcessor"
    /\ exc = "none"
    /\ ExcelView(listing[idx].data).reads = "ok"

(* the sheets of the file that are not empty once the all-NaN rows and     *)
(* columns are dropped                                                     *)
NonEmptySheets(data) ==
    {k \in 1..Len(ExcelView(data).sheets) :
        \E r \in 1..Len(ExcelView(data).sheets[k].cells) :
            \E c \in 1..Len(ExcelView(data).sheets[k].columns) :
                ~ExcelView(data).sheets[k].cells[r][c].nan}

(* the rows of sheet k that are not all NaN *)
RowsLeft(data, k) ==
    {r \in 1..Len(ExcelView(data).sheets[k].cells) :
        \E c \in 1..Len(ExcelView(data).sheets[k].columns) :
            ~ExcelView(data).sheets[k].cells[r][c].nan}

SheetEntriesOf(es, name) ==
    {i \in 1..Len(es) :
        /\ es[i].document_type = "excel_sheet"
        /\ es[i].tags[1] = name}

RowEntriesOf(es, name) ==
    {i \in 1..Len(es) :
        /\ es[i].document_type = "excel"
        /\ es[i].metadata.sheet = name}

(* C18: for a readable spreadsheet, every sheet that is not empty after    *)
(* pruning contributes exactly one sheet-summary entry tagged excel, and   *)
(* an empty sheet contributes no entry.                                    *)
C18_EntriesForNonEmptySheets ==
    ExcelReturned =>
        LET sheets == ExcelView(listing[idx].data).sheets IN
        \A k \in 1..Len(sheets) :
            IF k \in NonEmptySheets(listing[idx].data)
            THEN /\ Cardinality(SheetEntriesOf(entries, sheets[k].name)) = 1
                 /\ \A i \in SheetEntriesOf(entries, sheets[k].name) :
                       "excel" \in SeqRange(entries[i].tags)
            ELSE /\ SheetEntriesOf(entries, sheets[k].name) = {}
                 /\ RowEntriesOf(entries, sheets[k].name) = {}

(* C19: the number of row-level entries of a sheet is the number of rows   *)
(* that remain after the fully-empty rows and columns are dropped.         *)
C19_RowEntryPerRow ==
    ExcelReturned =>
        LET sheets == ExcelView(listing[idx].data).sheets IN
        \A k \in 1..Len(sheets) :
            Cardinality(RowEntriesOf(entries, sheets[k].name))
                = Cardinality(RowsLeft(listing[idx].data, k))

PdfFallbackReturned ==
    /\ pc = "pf_return"
    /\ ran = "PDFProcessor"
    /\ exc = "none"
    /\ PdfView(listing[idx].data).plumber = "ok"
    /\ PdfView(listing[idx].data).tables_raise
    /\ PdfView(listing[idx].data).pypdf = "ok"

(* C20: when the table extraction raises, the PDF extractor returns the    *)
(* document entry of the fallback strategy: confidence 0.7, no table       *)
(* entry, and one chunk per page.                                          *)
C20_FallbackEntryWithPageChunks ==
    PdfFallbackReturned =>
        /\ Len(entries) = 1
        /\ entries[1].document_type = "pdf"
        /\ entries[1].confidence_score = 70
        /\ Len(entries[1].chunks) = Len(PdfView(listing[idx].data).pages)


(* ---------------------------------------------------------------------- *)
(* Properties of the PDF extractor                                         *)
(* ---------------------------------------------------------------------- *)
PdfPlumberReturned ==
    /\ pc = "pf_return"
    /\ ran = "PDFProcessor"
    /\ exc = "none"
    /\ PdfView(listing[idx].data).plumber = "ok"
    /\ ~PdfView(listing[idx].data).tables_raise
    /\ PdfView(listing[idx].data).entry_raises = 0

PdfTablesOf(data) == AllTables(PdfView(data).pages, 1)

EntriesOfType(es, document_type) ==
    {k \in 1..Len(es) : es[k].document_type = document_type}

(* C21: when the table-aware strategy succeeds the result is exactly one   *)
(* document entry of confidence 0.9 plus exactly one table entry of        *)
(* confidence 0.8 for each extracted table of at least 2 rows, and nothing *)
(* for a table of fewer than 2 rows.                                       *)
C21_DocumentAndTableEntries ==
    PdfPlumberReturned =>
        LET tables == PdfTablesOf(listing[idx].data)
            big == {i \in 1..Len(tables) : Len(tables[i]) >= 2}
            docs == EntriesOfType(entries, "pdf")
            tabs == EntriesOfType(entries, "pdf_table")
        IN  /\ Cardinality(docs) = 1
            /\ \A k \in docs : entries[k].confidence_score = 90
            /\ docs \cup tabs = 1..Len(entries)
            /\ Cardinality(tabs) = Cardinality(big)
            /\ \A k \in tabs : /\ entries[k].confidence_score = 80
                               /\ entries[k].metadata.table_index + 1 \in big
            /\ \A i \in big :
                  \E k \in tabs : entries[k].metadata.table_index = i - 1

C21_Witness ==
    /\ PdfPlumberReturned
    /\ \E i \in 1..Len(PdfTablesOf(listing[idx].data)) :
          Len(PdfTablesOf(listing[idx].data)[i]) >= 2
    /\ \E i \in 1..Len(PdfTablesOf(listing[idx].data)) :
          Len(PdfTablesOf(listing[idx].data)[i]) < 2
    /\ Len(entries) = 2

(* the chunk holds the text block of page p and is numbered after it *)
ChunkOfPage(chunk, pages, p) ==
    /\ chunk.content = SCat(PageHeader(p), pages[p].text)
    /\ chunk.chunk_index = p - 1
    /\ chunk.metadata.page = p

(* C22: on the table-aware path the document entry has one chunk per page, *)
(* and each chunk's chunk_index is the number of the page its text came    *)
(* from minus one and its metadata page is that page number, also when     *)
(* some page yields no text.                                               *)
C22_ChunkIndexIsPageMinusOne ==
    PdfPlumberReturned =>
        LET pages == PdfView(listing[idx].data).pages
            chunks == entries[1].chunks
        IN  /\ Len(chunks) = Len(pages)
            /\ \A k \in 1..Len(chunks) :
                  \E p \in 1..Len(pages) : ChunkOfPage(chunks[k], pages, p)

(* ---------------------------------------------------------------------- *)
(* Properties of the type classifier                                       *)
(* ---------------------------------------------------------------------- *)
LoweredChars(t) == [i \in 1..Len(PieceChars(t)) |-> LowerChar(PieceChars(t)[i])]

(* the same path but for the letter case of its last piece *)
SameButExtensionCase(p, q) ==
    /\ Len(p) = Len(q)
    /\ \A i \in 1..(Len(p) - 1) : p[i] = q[i]
    /\ Len(p) > 0 => LoweredChars(p[Len(p)]) = LoweredChars(q[Len(q)])

(* C23: detect is total: for every path it returns exactly one category of *)
(* the closed set, the one the table gives for the lowercased extension    *)
(* (so paths that differ in the case of the extension get the same         *)
(* category), and unknown for an extension that is not in the table and    *)
(* for a path without extension.                                           *)
C23_ClassifierTotal ==
    fp_pc = "returned" =>
        LET sfx == PathSuffix(fp_path)
            keys == IF sfx = <<>> THEN {}
                    ELSE {k \in DOMAIN EXTENSION_MAP :
                             PieceChars(k) = LoweredChars(sfx[Len(sfx)])}
        IN  /\ fp_type \in DocumentType
            /\ keys = {} => fp_type = "unknown"
            /\ \A k \in keys : fp_type = EXTENSION_MAP[k]
            /\ \A q \in ClassifyInputs :
                  SameButExtensionCase(fp_path, q) => Detect(q) = fp_type

C23_Witness ==
    /\ fp_pc = "returned"
    /\ fp_path = <<"/", "a", ".", "Txt">>
    /\ fp_type = "text"

(* ---------------------------------------------------------------------- *)
(* Properties of the file descriptor                                       *)
(* ---------------------------------------------------------------------- *)
(* C24: a process() call changes no field of the extractor's descriptor    *)
(* other than encoding, and only the plain-text extractor changes          *)
(* encoding: checksum, name, size and category are as before the call.     *)
C24_OnlyEncodingBackfilled ==
    [][pc = "pf_process" =>
          /\ processor' = [processor EXCEPT !.encoding = processor'.encoding]
          /\ processor'.checksum = processor.checksum
          /\ processor'.file_name = processor.file_name
          /\ processor'.file_size = processor.file_size
          /\ processor'.file_type = processor.file_type
          /\ processor_class # "TextProcessor" => processor' = processor]_vars

C24_Witness ==
    /\ pc = "pf_return"
    /\ ran = "TextProcessor"
    /\ exc = "none"
    /\ processor.encoding = "latin-1"
    /\ processor.file_type = "archive"
    /\ processor.checksum = CalculateChecksum(listing[idx]).digest

(* ---------------------------------------------------------------------- *)
(* Properties of the summaries                                             *)
(* ---------------------------------------------------------------------- *)
FileReturned ==
    /\ pc = "pf_return"
    /\ exc = "none"

(* p is the first SLen(p) characters of s *)
IsPrefixOf(p, s) ==
    \/ p = <<>>
    \/ /\ Len(p) <= Len(s)
       /\ \A i \in 1..(Len(p) - 1) : p[i] = s[i]
       /\ p[Len(p)].c = s[Len(p)].c
       /\ p[Len(p)].n <= s[Len(p)].n

Shorter(a, b) == IF a < b THEN a ELSE b

Candidates == <<"utf-8", "latin-1", "cp1252", "iso-8859-1">>

DecodesUnder(k) == DecodeBytes(rd_bytes, Candidates[k]).err = "none"

(* C26: the encodings are tried in the order utf-8, latin-1, cp1252,       *)
(* iso-8859-1; the content and the recorded encoding are those of the      *)
(* first that decodes, and no later one is tried; when none decodes the    *)
(* content is the permissive decoding.                                     *)
C26_FirstDecodingEncodingKept ==
    rd_pc = "returned" =>
        /\ \A k \in 1..4 :
              (DecodesUnder(k) /\ \A j \in 1..(k - 1) : ~DecodesUnder(j)) =>
                  /\ rd_tried = SubSeq(Candidates, 1, k)
                  /\ rd_encoding = Candidates[k]
                  /\ rd_content = DecodeBytes(rd_bytes, Candidates[k]).text
        /\ (\A k \in 1..4 : ~DecodesUnder(k)) =>
              /\ rd_tried = Append(Candidates, "utf-8/ignore")
              /\ rd_content = DecodeBytesIgnore(rd_bytes)

C26_Witness ==
    /\ rd_pc = "returned"
    /\ ~DecodesUnder(1)
    /\ DecodesUnder(4)
    /\ rd_tried = <<"utf-8", "latin-1">>
    /\ rd_encoding = "latin-1"
    /\ rd_content = TextOfCodePoints(<<195, 10, 255>>)

(* C30: the permissive read is never reached and cp1252 and iso-8859-1     *)
(* are never tried, latin-1 decoding every byte string: the recorded       *)
(* encoding is utf-8 or latin-1, never empty.                              *)
C30_Latin1AlwaysDecodes ==
    rd_pc = "returned" =>
        /\ rd_encoding \in {"utf-8", "latin-1"}
        /\ \A i \in 1..Len(rd_tried) : rd_tried[i] \in {"utf-8", "latin-1"}
        /\ rd_content = DecodeBytes(rd_bytes, rd_encoding).text

C30_Witness ==
    /\ rd_pc = "returned"
    /\ rd_bytes = <<65, 129>>
    /\ ~DecodesUnder(1)
    /\ ~DecodesUnder(3)
    /\ rd_encoding = "latin-1"

(* ---------------------------------------------------------------------- *)
(* Properties of the word-processor extractor and of the chunk lists      *)
(* ---------------------------------------------------------------------- *)
WordReturned ==
    /\ pc = "pf_return"
    /\ ran = "WordProcessor"
    /\ exc = "none"
    /\ Len(entries) = 1

IsBlank(s) == \A i \in 1..Len(s) : IsSpaceChar(s[i].c)

(* C27: every segment of the split at heading-like line starts is exactly  *)
(* one chunk: as many chunks as segments, chunk i holding segment i.       *)
C27_ChunkPerSegment ==
    WordReturned =>
        LET sections == SplitSections(entries[1].content)
            chunks == entries[1].chunks
        IN  /\ Len(chunks) = Len(sections)
            /\ \A i \in 1..Len(chunks) : chunks[i].content = sections[i]

(* C27 as the code has it: every segment that is not blank is exactly one  *)
(* chunk, in order, and a blank segment gives no chunk.                    *)
C27_ChunkPerNonBlankSegment ==
    WordReturned =>
        LET sections == SplitSections(entries[1].content)
            chunks == entries[1].chunks
            kept == {i \in 1..Len(sections) : ~IsBlank(sections[i])}
        IN  /\ Len(chunks) = Cardinality(kept)
            /\ \A j \in 1..Len(chunks) :
                  chunks[j].content = sections[KthOf(kept, j)]

C27_Witness ==
    /\ WordReturned
    /\ \E i \in 1..Len(SplitSections(entries[1].content)) :
          IsBlank(SplitSections(entries[1].content)[i])
    /\ Len(SplitSections(entries[1].content)) = 4
    /\ Len(entries[1].chunks) = 3

(* C28: in every entry of every extractor, each chunk of the chunk list    *)
(* has total_chunks equal to the length of the list and a chunk_index in   *)
(* 0..length-1.                                                            *)
C28_ChunkCountsMatchList ==
    FileReturned =>
        \A k \in 1..Len(entries) :
            \A j \in 1..Len(entries[k].chunks) :
                /\ entries[k].chunks[j].total_chunks = Len(entries[k].chunks)
                /\ entries[k].chunks[j].chunk_index \in
                      0..(Len(entries[k].chunks) - 1)

PdfReturned ==
    /\ pc = "pf_return"
    /\ ran = "PDFProcessor"
    /\ exc = "none"

====
